---- MODULE Spec2Model ----
(***************************************************************************)
(* State-machine model of the LiTime BMS monitor firmware                  *)
(* (src/src/main.cpp, the non-blocking variant, lines 1463-3574):          *)
(* settings persistence, the validity gate, the WLAN and BMS connection    *)
(* state machines, the Home Assistant webhook dispatcher and loop().       *)
(*                                                                         *)
(* Units: every time is in milliseconds, as millis() returns it; voltages  *)
(* are in millivolts (the float 10.0 V is 10000).                          *)
(***************************************************************************)
EXTENDS Integers, Sequences, FiniteSets, TLC

VARIABLES
  \* persisted user settings (globals, main.cpp 1490-1568)
  timezone, bmsInterval, bluetoothEnabled, bmsMac,
  haWebhookUrl, haInterval, haEnabled, serialOutputEnabled,
  \* NVS namespaces "settings" and "wifi" (Preferences)
  nvsSettings, nvsWifi,
  \* WLAN state
  apMode, wifiReconnecting, wifiReconnectStart, lastWifiCheck, wifiStatus,
  \* BMS state
  bmsConnected, bmsConnectPending, lastBmsUpdate, bmsData, bmsDataValid,
  \* whether the BLE link to the BMS exists (the radio's state, not a global)
  bmsLinkUp,
  \* when bmsClient.connect() was last called since boot (history; NoAttempt if never)
  lastBmsAttempt,
  \* webhook record
  lastHaSend, lastHaTime, lastHaHttpCode, lastHaResponse,
  \* NTP
  lastNtpSync, lastSyncTime,
  \* scheduler: position in setup()/loop(), millis(), loop()'s currentMillis
  pc, now, currentMillis,
  \* what the last step did to the outside world (calls issued, Serial lines)
  ev

cfgVars == <<timezone, bmsInterval, bluetoothEnabled, bmsMac,
             haWebhookUrl, haInterval, haEnabled, serialOutputEnabled>>
nvsVars == <<nvsSettings, nvsWifi>>
netVars == <<apMode, wifiReconnecting, wifiReconnectStart, lastWifiCheck, wifiStatus>>
bmsVars == <<bmsConnected, bmsConnectPending, lastBmsUpdate, bmsData, bmsDataValid>>
haVars  == <<lastHaSend, lastHaTime, lastHaHttpCode, lastHaResponse>>
ntpVars == <<lastNtpSync, lastSyncTime>>
clkVars == <<now, currentMillis>>
vars == <<cfgVars, nvsVars, netVars, bmsVars, bmsLinkUp, lastBmsAttempt, haVars, ntpVars, pc, clkVars, ev>>

(***************************************************************************)
(* Bounds of the model                                                     *)
(***************************************************************************)
\* loop() iterations of 15 s that a run may spend besides one long sleep
MaxTicks == 6
\* the same, in the delivery environment
MaxTicksHa == 4
\* longest cell-voltage vector the gate is enumerated on
MaxCells == 2
\* loop() iterations after a boot in the whole-device environment
MaxTicksDevice == 3
\* ticks of the run with every writer of a shared record
MaxTicksShared == 2
\* ticks of the run with every HTTP result
MaxTicksPost == 2
\* ticks of the run with every timer
MaxTicksTimers == 3

(***************************************************************************)
(* Program constants                                                       *)
(***************************************************************************)
WIFI_TIMEOUT_MS == 30000
wifiCheckInterval == 30000
ntpSyncInterval == 3600000
WifiReconnectTimeout == 15000
BmsReconnectInterval == 30000
MacLength == 17
SetupDelay == 2000
ConnectWait == 15000
\* getLocalTime(&timeinfo, 10000) in syncNTP
NtpWait == 10000
\* http.setTimeout(10000) in sendToHomeAssistant
HttpTimeout == 10000
\* lastBmsAttempt before the first call of bmsClient.connect()
NoAttempt == 0 - 1

DefaultTimezone == "CET-1CEST,M3.5.0,M10.5.0/3"

\* time that passes between two reads of millis() at the top of loop(): one
\* reconnect timeout, or, once per run, a whole NTP interval
Tick == WifiReconnectTimeout
Horizon(ticks) == SetupDelay + ticks * Tick

(***************************************************************************)
(* BMSData (struct, main.cpp 1603-1622): the three fields the firmware's   *)
(* logic reads; the other fields are only copied and printed.              *)
(***************************************************************************)
Reading(v, s, cells) == [totalVoltage |-> v, soc |-> s, cellVoltages |-> cells]
EmptyData == Reading(0, 0, <<>>)

\* what bmsClient may report at a poll, in the orchestration model
Readings ==
  { Reading(0, 0, <<>>),                  \* zeroed data right after connect
    Reading(26400, 85, <<3300, 3300>>),
    Reading(13200, 50, <<3300>>),
    Reading(26400, 85, <<3300, 4100>>) }

\* the grid the gate is enumerated on
GateVolts == {0, 9999, 10000, 26400, 60000, 60001}
GateSocs  == {0, 85, 100, 101, 255}
GateCellVolts == {1999, 2000, 3300, 4000, 4001}
RECURSIVE SeqsUpTo(_, _)
SeqsUpTo(S, n) ==
  IF n = 0 THEN {<<>>}
  ELSE LET shorter == SeqsUpTo(S, n - 1)
       IN  shorter \cup {Append(q, x) : q \in {r \in shorter : Len(r) = n - 1}, x \in S}
GateReadings ==
  {Reading(v, s, c) : v \in GateVolts, s \in GateSocs, c \in SeqsUpTo(GateCellVolts, MaxCells)}

(***************************************************************************)
(* isBmsDataValid                                                          *)
(***************************************************************************)
RECURSIVE CellsPlausibleFrom(_, _)
CellsPlausibleFrom(cells, i) ==
  IF i > Len(cells) THEN TRUE
  ELSE IF cells[i] < 2000 \/ cells[i] > 4000 THEN FALSE
  ELSE CellsPlausibleFrom(cells, i + 1)

\* (variant) the pack-voltage rule with an exclusive lower bound
isBmsDataValid_ExclusiveBound(d) ==
  IF d.totalVoltage <= 10000 \/ d.totalVoltage > 60000 THEN FALSE
  ELSE IF d.soc > 100 THEN FALSE
  ELSE IF Len(d.cellVoltages) = 0 THEN FALSE
  ELSE CellsPlausibleFrom(d.cellVoltages, 1)

isBmsDataValid(d) ==
  IF d.totalVoltage < 10000 \/ d.totalVoltage > 60000 THEN FALSE
  ELSE IF d.soc > 100 THEN FALSE
  ELSE IF Len(d.cellVoltages) = 0 THEN FALSE
  ELSE CellsPlausibleFrom(d.cellVoltages, 1)

(***************************************************************************)
(* Events of one step                                                      *)
(***************************************************************************)
NoEv(op) == [op |-> op, arg |-> 0, posts |-> 0, bleConnects |-> 0, bleDisconnects |-> 0,
             wifiBegins |-> 0, wifiReconnects |-> 0, polls |-> 0, log |-> <<>>,
             restart |-> FALSE, reply |-> "none", mac |-> "", payload |-> <<>>]

LogInvalid == "[BMS] Daten nicht plausibel - ueberspringe Ausgabe/Webhook"
LogValid   == "[BMS] Daten jetzt plausibel - Ausgabe aktiviert"
LogPrint   == "printBMSDataSerial"
LogConnectRequested == "[BLE] BMS-Verbindung angefordert, wird im Hintergrund hergestellt..."
LogReconnectPlanned == "[BLE] Plane BMS Reconnect..."

(***************************************************************************)
(* Preferences (NVS): a namespace maps each key to <<>> (absent) or <<v>>  *)
(***************************************************************************)
SettingsKeys == {"timezone", "bmsInterval", "btEnabled", "bmsMac",
                 "haWebhook", "haInterval", "haEnabled", "serialOut"}
WifiKeys == {"ssid", "password"}
EmptyNamespace(keys) == [k \in keys |-> <<>>]
PrefPut(store, key, value) == [store EXCEPT ![key] = <<value>>]
PrefGet(store, key, default) == IF store[key] = <<>> THEN default ELSE store[key][1]

\* (variant) saveSettings() without the put of "serialOut"
saveSettings_SevenPuts(store, tz, bmsIv, btEn, mac, url, haIv, haEn, serOut) ==
  LET s1 == PrefPut(store, "timezone", tz)
      s2 == PrefPut(s1, "bmsInterval", bmsIv)
      s3 == PrefPut(s2, "btEnabled", btEn)
      s4 == PrefPut(s3, "bmsMac", mac)
      s5 == PrefPut(s4, "haWebhook", url)
      s6 == PrefPut(s5, "haInterval", haIv)
  IN  PrefPut(s6, "haEnabled", haEn)

\* saveSettings(): the "settings" namespace after the eight puts
saveSettings(store, tz, bmsIv, btEn, mac, url, haIv, haEn, serOut) ==
  LET s1 == PrefPut(store, "timezone", tz)
      s2 == PrefPut(s1, "bmsInterval", bmsIv)
      s3 == PrefPut(s2, "btEnabled", btEn)
      s4 == PrefPut(s3, "bmsMac", mac)
      s5 == PrefPut(s4, "haWebhook", url)
      s6 == PrefPut(s5, "haInterval", haIv)
      s7 == PrefPut(s6, "haEnabled", haEn)
  IN  PrefPut(s7, "serialOut", serOut)

\* (variant) haEnabled read back from the key of bluetoothEnabled
loadSettings_WrongKey(store) ==
  [timezone            |-> PrefGet(store, "timezone", DefaultTimezone),
   bmsInterval         |-> PrefGet(store, "bmsInterval", 20),
   bluetoothEnabled    |-> PrefGet(store, "btEnabled", TRUE),
   bmsMac              |-> PrefGet(store, "bmsMac", ""),
   haWebhookUrl        |-> PrefGet(store, "haWebhook", ""),
   haInterval          |-> PrefGet(store, "haInterval", 60),
   haEnabled           |-> PrefGet(store, "btEnabled", FALSE),
   serialOutputEnabled |-> PrefGet(store, "serialOut", TRUE)]

\* loadSettings(): the eight globals as read back, defaults for absent keys
loadSettings(store) ==
  [timezone            |-> PrefGet(store, "timezone", DefaultTimezone),
   bmsInterval         |-> PrefGet(store, "bmsInterval", 20),
   bluetoothEnabled    |-> PrefGet(store, "btEnabled", TRUE),
   bmsMac              |-> PrefGet(store, "bmsMac", ""),
   haWebhookUrl        |-> PrefGet(store, "haWebhook", ""),
   haInterval          |-> PrefGet(store, "haInterval", 60),
   haEnabled           |-> PrefGet(store, "haEnabled", FALSE),
   serialOutputEnabled |-> PrefGet(store, "serialOut", TRUE)]

(***************************************************************************)
(* updateBMSData(): the snapshot, the flag and the Serial lines after a    *)
(* poll that reads `rd` from the BMS client, given the connected flag      *)
(***************************************************************************)
\* (variant) the poll that reports every implausible reading
updateBMSData_ReportEvery(conn, rd, data, wasValid, serOut) ==
  IF ~conn
  THEN [data |-> data, valid |-> wasValid, log |-> <<>>, polls |-> 0]
  ELSE LET valid == isBmsDataValid(rd)
       IN  IF ~valid
           THEN [data |-> rd, valid |-> FALSE, polls |-> 1, log |-> <<LogInvalid>>]
           ELSE [data |-> rd, valid |-> TRUE, polls |-> 1,
                 log |-> (IF ~wasValid THEN <<LogValid>> ELSE <<>>)
                         \o (IF serOut THEN <<LogPrint>> ELSE <<>>)]

\* (variant) the poll that checks plausibility before it copies the reading
updateBMSData_ChecksBeforeCopy(conn, rd, data, wasValid, serOut) ==
  IF ~conn
  THEN [data |-> data, valid |-> wasValid, log |-> <<>>, polls |-> 0]
  ELSE LET valid == isBmsDataValid(data)
       IN  IF ~valid
           THEN [data |-> rd, valid |-> FALSE, polls |-> 1,
                 log |-> IF wasValid THEN <<LogInvalid>> ELSE <<>>]
           ELSE [data |-> rd, valid |-> TRUE, polls |-> 1,
                 log |-> (IF ~wasValid THEN <<LogValid>> ELSE <<>>)
                         \o (IF serOut THEN <<LogPrint>> ELSE <<>>)]

\* (variant) the poll that takes over a reading only once it is found plausible
updateBMSData_KeepsOnInvalid(conn, rd, data, wasValid, serOut) ==
  IF ~conn
  THEN [data |-> data, valid |-> wasValid, log |-> <<>>, polls |-> 0]
  ELSE LET valid == isBmsDataValid(rd)
       IN  IF ~valid
           THEN [data |-> data, valid |-> FALSE, polls |-> 1,
                 log |-> IF wasValid THEN <<LogInvalid>> ELSE <<>>]
           ELSE [data |-> rd, valid |-> TRUE, polls |-> 1,
                 log |-> (IF ~wasValid THEN <<LogValid>> ELSE <<>>)
                         \o (IF serOut THEN <<LogPrint>> ELSE <<>>)]

updateBMSData(conn, rd, data, wasValid, serOut) ==
  IF ~conn
  THEN [data |-> data, valid |-> wasValid, log |-> <<>>, polls |-> 0]
  ELSE LET valid == isBmsDataValid(rd)
       IN  IF ~valid
           THEN [data |-> rd, valid |-> FALSE, polls |-> 1,
                 log |-> IF wasValid THEN <<LogInvalid>> ELSE <<>>]
           ELSE [data |-> rd, valid |-> TRUE, polls |-> 1,
                 log |-> (IF ~wasValid THEN <<LogValid>> ELSE <<>>)
                         \o (IF serOut THEN <<LogPrint>> ELSE <<>>)]

(***************************************************************************)
(* Power-on state: the globals' initialisers (main.cpp 1486-1622)          *)
(***************************************************************************)
RamInit ==
  /\ timezone = DefaultTimezone
  /\ bmsInterval = 20
  /\ bluetoothEnabled = TRUE
  /\ bmsMac = ""
  /\ haWebhookUrl = ""
  /\ haInterval = 60
  /\ haEnabled = FALSE
  /\ serialOutputEnabled = TRUE
  /\ apMode = FALSE
  /\ wifiReconnecting = FALSE
  /\ wifiReconnectStart = 0
  /\ lastWifiCheck = 0
  /\ wifiStatus = "WL_DISCONNECTED"
  /\ bmsConnected = FALSE
  /\ bmsConnectPending = FALSE
  /\ lastBmsUpdate = 0
  /\ bmsData = EmptyData
  /\ bmsDataValid = FALSE
  /\ bmsLinkUp = FALSE
  /\ lastBmsAttempt = NoAttempt
  /\ lastHaSend = 0
  /\ lastHaTime = <<>>
  /\ lastHaHttpCode = 0
  /\ lastHaResponse = ""
  /\ lastNtpSync = 0
  /\ lastSyncTime = 0
  /\ now = 0
  /\ currentMillis = 0

\* ESP.restart(): RAM is lost, NVS is kept, setup() runs next
Restarted ==
  /\ timezone' = DefaultTimezone
  /\ bmsInterval' = 20
  /\ bluetoothEnabled' = TRUE
  /\ bmsMac' = ""
  /\ haWebhookUrl' = ""
  /\ haInterval' = 60
  /\ haEnabled' = FALSE
  /\ serialOutputEnabled' = TRUE
  /\ apMode' = FALSE
  /\ wifiReconnecting' = FALSE
  /\ wifiReconnectStart' = 0
  /\ lastWifiCheck' = 0
  /\ wifiStatus' = "WL_DISCONNECTED"
  /\ bmsConnected' = FALSE
  /\ bmsConnectPending' = FALSE
  /\ lastBmsUpdate' = 0
  /\ bmsData' = EmptyData
  /\ bmsDataValid' = FALSE
  /\ bmsLinkUp' = FALSE
  /\ lastBmsAttempt' = NoAttempt
  /\ lastHaSend' = 0
  /\ lastHaTime' = <<>>
  /\ lastHaHttpCode' = 0
  /\ lastHaResponse' = ""
  /\ lastNtpSync' = 0
  /\ lastSyncTime' = 0
  /\ now' = 0
  /\ currentMillis' = 0
  /\ pc' = "boot"

SavedWifi == [ssid |-> <<"home">>, password |-> <<"secret">>]

\* time(nullptr) once the clock is set: some positive time_t
SyncedTime == 1 + ntpSyncInterval

(***************************************************************************)
(* getCurrentTimeString(): formatted local time, or the error text while   *)
(* the clock has never been set                                            *)
(***************************************************************************)
getCurrentTimeString(syncTime, t) ==
  IF syncTime = 0 THEN <<"Zeit nicht verfuegbar">> ELSE <<"dd.mm.yyyy hh:mm:ss">>

(***************************************************************************)
(* setup(): loadSettings, connectToSavedWiFi or startAP, syncNTP, the      *)
(* first BMS connection, the timers                                        *)
(***************************************************************************)
\* (variant) WiFi.begin even without a stored SSID
connectToSavedWiFi_AlwaysBegin(store, linkUp) ==
  [result |-> linkUp, wifiBegins |-> 1, waited |-> IF linkUp THEN 0 ELSE WIFI_TIMEOUT_MS]

\* connectToSavedWiFi(): `linkUp` is WiFi.status() == WL_CONNECTED when the
\* wait loop ends; no WiFi.begin without a stored SSID
connectToSavedWiFi(store, linkUp) ==
  LET ssid == PrefGet(store, "ssid", "")
  IN  IF Len(ssid) = 0
      THEN [result |-> FALSE, wifiBegins |-> 0, waited |-> 0]
      ELSE [result |-> linkUp, wifiBegins |-> 1,
            waited |-> IF linkUp THEN 0 ELSE WIFI_TIMEOUT_MS]

Setup(linkUp, ntpOk, bleOk, rd) ==
  /\ pc = "boot"
  /\ LET cfg  == loadSettings(nvsSettings)
         wifi == connectToSavedWiFi(nvsWifi, linkUp)
         ap   == ~wifi.result                       \* startAP() sets apMode
         t    == now + SetupDelay + wifi.waited + (IF ~ap /\ ~ntpOk THEN NtpWait ELSE 0)
         sync == IF ~ap /\ ntpOk THEN SyncedTime ELSE lastSyncTime
         try  == cfg.bluetoothEnabled /\ Len(cfg.bmsMac) = MacLength
         conn == IF try THEN bleOk ELSE bmsConnected
         upd  == IF try /\ conn
                 THEN updateBMSData(conn, rd, bmsData, bmsDataValid, cfg.serialOutputEnabled)
                 ELSE updateBMSData(FALSE, rd, bmsData, bmsDataValid, cfg.serialOutputEnabled)
     IN  /\ timezone' = cfg.timezone
         /\ bmsInterval' = cfg.bmsInterval
         /\ bluetoothEnabled' = cfg.bluetoothEnabled
         /\ bmsMac' = cfg.bmsMac
         /\ haWebhookUrl' = cfg.haWebhookUrl
         /\ haInterval' = cfg.haInterval
         /\ haEnabled' = cfg.haEnabled
         /\ serialOutputEnabled' = cfg.serialOutputEnabled
         /\ apMode' = ap
         /\ wifiStatus' = IF wifi.result THEN "WL_CONNECTED" ELSE "WL_DISCONNECTED"
         /\ lastSyncTime' = sync
         /\ bmsConnected' = conn
         /\ bmsLinkUp' = conn
         /\ lastBmsAttempt' = IF try THEN t ELSE lastBmsAttempt
         /\ bmsData' = upd.data
         /\ bmsDataValid' = upd.valid
         /\ now' = t
         /\ lastBmsUpdate' = t
         /\ lastNtpSync' = t
         /\ ev' = [NoEv("setup") EXCEPT !.wifiBegins = wifi.wifiBegins,
                                        !.bleConnects = IF try THEN 1 ELSE 0,
                                        !.polls = upd.polls, !.arg = (IF upd.polls = 1 THEN rd ELSE 0),
                                        !.log = upd.log]
  /\ pc' = "idle"
  /\ UNCHANGED <<nvsVars, wifiReconnecting, wifiReconnectStart, lastWifiCheck,
                 bmsConnectPending, haVars, currentMillis>>

(***************************************************************************)
(* sendToHomeAssistant()                                                   *)
(***************************************************************************)
RECURSIVE Repeat(_, _)
Repeat(str, n) ==
  IF n = 0 THEN ""
  ELSE IF n = 1 THEN str
  ELSE Repeat(str, n \div 2) \o Repeat(str, n - (n \div 2))

RECURSIVE NatToString(_)
NatToString(n) ==
  LET digit == SubSeq("0123456789", (n % 10) + 1, (n % 10) + 1)
  IN  IF n < 10 THEN digit ELSE NatToString(n \div 10) \o digit
IntToString(i) == IF i < 0 THEN "-" \o NatToString(0 - i) ELSE NatToString(i)

\* what http.POST and http.getString may return
HttpResults ==
  { [code |-> 200, body |-> "OK"],
    [code |-> 200, body |-> Repeat("x", 201)],
    [code |-> 204, body |-> ""],
    [code |-> 404, body |-> "404: Not Found"],
    [code |-> 500, body |-> Repeat("y", 200)],
    [code |-> 0 - 1, body |-> ""],
    [code |-> 0 - 2, body |-> ""],
    [code |-> 0 - 3, body |-> ""],
    [code |-> 0 - 4, body |-> ""],
    [code |-> 0 - 5, body |-> ""],
    [code |-> 0 - 6, body |-> ""],
    [code |-> 0 - 11, body |-> ""],
    [code |-> 0, body |-> ""] }

\* (variant) the reason table without the timeout entry
HttpErrorText_NoTimeout(httpCode) ==
  CASE httpCode = 0 - 1  -> "Verbindung fehlgeschlagen"
    [] httpCode = 0 - 2  -> "Senden fehlgeschlagen"
    [] httpCode = 0 - 3  -> "Kein Stream"
    [] httpCode = 0 - 4  -> "Keine HTTP-Verbindung"
    [] httpCode = 0 - 5  -> "Verbindung verloren"
    [] OTHER             -> "Fehler " \o IntToString(httpCode)

HttpErrorText(httpCode) ==
  CASE httpCode = 0 - 1  -> "Verbindung fehlgeschlagen"
    [] httpCode = 0 - 2  -> "Senden fehlgeschlagen"
    [] httpCode = 0 - 3  -> "Kein Stream"
    [] httpCode = 0 - 4  -> "Keine HTTP-Verbindung"
    [] httpCode = 0 - 5  -> "Verbindung verloren"
    [] httpCode = 0 - 11 -> "Timeout"
    [] OTHER             -> "Fehler " \o IntToString(httpCode)

\* the JSON document of the webhook, as far as the snapshot and the
\* connection flag go into it
webhookPayload ==
  [connected |-> bmsConnected,
   battery |-> [voltage |-> bmsData.totalVoltage, soc |-> bmsData.soc],
   cell_voltages |-> bmsData.cellVoltages]

\* (variant) the webhook that skips implausible data without recording why
sendToHomeAssistant_SilentSkip(enabled, http) ==
  IF ~enabled \/ Len(haWebhookUrl) = 0 \/ apMode \/ ~bmsDataValid
  THEN [posts |-> 0, time |-> lastHaTime, code |-> lastHaHttpCode,
        resp |-> lastHaResponse, result |-> FALSE]
  ELSE IF wifiStatus # "WL_CONNECTED"
  THEN [posts |-> 0, time |-> getCurrentTimeString(lastSyncTime, now), code |-> 0 - 1,
        resp |-> "Kein WLAN", result |-> FALSE]
  ELSE [posts |-> 1, time |-> getCurrentTimeString(lastSyncTime, now), code |-> http.code,
        resp |-> IF http.code > 0
                 THEN (IF Len(http.body) > 200
                       THEN SubSeq(http.body, 1, 200) \o "..."
                       ELSE http.body)
                 ELSE HttpErrorText(http.code),
        result |-> (http.code = 200)]

\* (variant) the webhook without the plausibility check
sendToHomeAssistant_NoValidityCheck(enabled, http) ==
  IF ~enabled \/ Len(haWebhookUrl) = 0 \/ apMode
  THEN [posts |-> 0, time |-> lastHaTime, code |-> lastHaHttpCode,
        resp |-> lastHaResponse, result |-> FALSE]
  ELSE IF wifiStatus # "WL_CONNECTED"
  THEN [posts |-> 0, time |-> getCurrentTimeString(lastSyncTime, now), code |-> 0 - 1,
        resp |-> "Kein WLAN", result |-> FALSE]
  ELSE [posts |-> 1, time |-> getCurrentTimeString(lastSyncTime, now), code |-> http.code,
        resp |-> IF http.code > 0
                 THEN (IF Len(http.body) > 200
                       THEN SubSeq(http.body, 1, 200) \o "..."
                       ELSE http.body)
                 ELSE HttpErrorText(http.code),
        result |-> (http.code = 200)]

\* the record, the number of HTTP POSTs issued and the return value, with
\* `enabled` the value of haEnabled during the call and `http` the server's answer
sendToHomeAssistant(enabled, http) ==
  IF ~enabled \/ Len(haWebhookUrl) = 0 \/ apMode
  THEN [posts |-> 0, time |-> lastHaTime, code |-> lastHaHttpCode,
        resp |-> lastHaResponse, result |-> FALSE]
  ELSE IF wifiStatus # "WL_CONNECTED"
  THEN [posts |-> 0, time |-> getCurrentTimeString(lastSyncTime, now), code |-> 0 - 1,
        resp |-> "Kein WLAN", result |-> FALSE]
  ELSE IF ~bmsDataValid
  THEN [posts |-> 0, time |-> getCurrentTimeString(lastSyncTime, now), code |-> 0 - 1,
        resp |-> "BMS-Daten nicht plausibel", result |-> FALSE]
  ELSE [posts |-> 1, time |-> getCurrentTimeString(lastSyncTime, now), code |-> http.code,
        resp |-> IF http.code > 0
                 THEN (IF Len(http.body) > 200
                       THEN SubSeq(http.body, 1, 200) \o "..."
                       ELSE http.body)
                 ELSE HttpErrorText(http.code),
        result |-> (http.code = 200)]

(***************************************************************************)
(* loop(), one step per section                                            *)
(***************************************************************************)
\* unsigned long currentMillis = millis();
LoopBegin(elapsed) ==
  /\ pc = "idle"
  /\ now' = now + elapsed
  /\ currentMillis' = now + elapsed
  /\ pc' = "handle"
  /\ ev' = NoEv("loop")
  /\ UNCHANGED <<bmsLinkUp, lastBmsAttempt, cfgVars, nvsVars, netVars, bmsVars, haVars, ntpVars>>

\* server.handleClient() with no request waiting
HandleNone ==
  /\ pc = "handle"
  /\ pc' = "wifi"
  /\ ev' = NoEv("none")
  /\ UNCHANGED <<bmsLinkUp, lastBmsAttempt, cfgVars, nvsVars, netVars, bmsVars, haVars, ntpVars, clkVars>>

\* (variant) the periodic WLAN check without its interval
WifiCheckDue_EveryTick == TRUE

\* (variant) a reconnect that never times out
WifiReconnectTimedOut_Never == FALSE

\* the conditions of loop()'s sections
WifiReconnectTimedOut == currentMillis - wifiReconnectStart > WifiReconnectTimeout
WifiCheckDue == currentMillis - lastWifiCheck >= wifiCheckInterval
\* (variant) the connect condition without the length check on the MAC
BmsConnectDue_NoMacCheck == bluetoothEnabled /\ bmsConnectPending /\ ~bmsConnected

\* (variant) the connect condition without the enabled flag
BmsConnectDue_NoEnabled == bmsConnectPending /\ ~bmsConnected /\ Len(bmsMac) = MacLength

\* (variant) the connect condition without the pending flag
BmsConnectDue_NoPending == bluetoothEnabled /\ ~bmsConnected /\ Len(bmsMac) = MacLength

BmsConnectDue ==
  bluetoothEnabled /\ bmsConnectPending /\ ~bmsConnected /\ Len(bmsMac) = MacLength
BmsDiscardDue == bmsConnectPending /\ Len(bmsMac) # MacLength
\* (variant) the periodic poll without its interval
BmsPollDue_NoInterval == bluetoothEnabled /\ bmsConnected

BmsPollDue ==
  bluetoothEnabled /\ bmsConnected /\ currentMillis - lastBmsUpdate >= bmsInterval * 1000
\* (variant) the reconnect timer without its backoff
BmsReconnectDue_NoBackoff == bluetoothEnabled /\ ~bmsConnected /\ ~bmsConnectPending

BmsReconnectDue ==
  /\ bluetoothEnabled /\ ~bmsConnected /\ ~bmsConnectPending
  /\ currentMillis - lastBmsUpdate >= BmsReconnectInterval
NtpDue ==
  ~apMode /\ wifiStatus = "WL_CONNECTED" /\ currentMillis - lastNtpSync >= ntpSyncInterval
\* (variant) the webhook condition without its interval
HaDue_NoInterval == haEnabled /\ ~apMode /\ wifiStatus = "WL_CONNECTED"

HaDue ==
  /\ haEnabled /\ ~apMode /\ wifiStatus = "WL_CONNECTED"
  /\ currentMillis - lastHaSend >= haInterval * 1000

\* WLAN-Verbindung ueberwachen
\* (variant) the WLAN section that also runs while the soft AP is up
WifiTick_IgnoresApMode ==
  /\ pc = "wifi"
  /\ pc' = "bmsConnect"
  /\ IF wifiReconnecting
     THEN /\ wifiReconnecting' =
               IF wifiStatus = "WL_CONNECTED" THEN FALSE
               ELSE IF WifiReconnectTimedOut THEN FALSE
               ELSE wifiReconnecting
          /\ ev' = NoEv("wifiTick")
          /\ UNCHANGED <<lastWifiCheck, wifiReconnectStart>>
     ELSE IF WifiCheckDue
     THEN /\ lastWifiCheck' = currentMillis
          /\ IF wifiStatus # "WL_CONNECTED"
             THEN /\ wifiReconnecting' = TRUE
                  /\ wifiReconnectStart' = currentMillis
                  /\ ev' = [NoEv("wifiTick") EXCEPT !.wifiReconnects = 1]
             ELSE /\ ev' = NoEv("wifiTick")
                  /\ UNCHANGED <<wifiReconnecting, wifiReconnectStart>>
     ELSE /\ ev' = NoEv("wifiTick")
          /\ UNCHANGED <<wifiReconnecting, wifiReconnectStart, lastWifiCheck>>
  /\ UNCHANGED <<bmsLinkUp, lastBmsAttempt, cfgVars, nvsVars, apMode, wifiStatus, bmsVars, haVars, ntpVars, clkVars>>

\* (variant) the WLAN section followed at once by the time-sync section
WifiTick_SkipsPeripheral ==
  /\ pc = "wifi"
  /\ pc' = "ntp"
  /\ IF ~apMode
     THEN IF wifiReconnecting
          THEN /\ wifiReconnecting' =
                    IF wifiStatus = "WL_CONNECTED" THEN FALSE
                    ELSE IF WifiReconnectTimedOut THEN FALSE
                    ELSE wifiReconnecting
               /\ ev' = NoEv("wifiTick")
               /\ UNCHANGED <<lastWifiCheck, wifiReconnectStart>>
          ELSE IF WifiCheckDue
          THEN /\ lastWifiCheck' = currentMillis
               /\ IF wifiStatus # "WL_CONNECTED"
                  THEN /\ wifiReconnecting' = TRUE
                       /\ wifiReconnectStart' = currentMillis
                       /\ ev' = [NoEv("wifiTick") EXCEPT !.wifiReconnects = 1]
                  ELSE /\ ev' = NoEv("wifiTick")
                       /\ UNCHANGED <<wifiReconnecting, wifiReconnectStart>>
          ELSE /\ ev' = NoEv("wifiTick")
               /\ UNCHANGED <<wifiReconnecting, wifiReconnectStart, lastWifiCheck>>
     ELSE /\ ev' = NoEv("wifiTick")
          /\ UNCHANGED <<wifiReconnecting, wifiReconnectStart, lastWifiCheck>>
  /\ UNCHANGED <<bmsLinkUp, lastBmsAttempt, cfgVars, nvsVars, apMode, wifiStatus, bmsVars, haVars, ntpVars, clkVars>>

WifiTick ==
  /\ pc = "wifi"
  /\ pc' = "bmsConnect"
  /\ IF ~apMode
     THEN IF wifiReconnecting
          THEN /\ wifiReconnecting' =
                    IF wifiStatus = "WL_CONNECTED" THEN FALSE
                    ELSE IF WifiReconnectTimedOut THEN FALSE
                    ELSE wifiReconnecting
               /\ ev' = NoEv("wifiTick")
               /\ UNCHANGED <<lastWifiCheck, wifiReconnectStart>>
          ELSE IF WifiCheckDue
          THEN /\ lastWifiCheck' = currentMillis
               /\ IF wifiStatus # "WL_CONNECTED"
                  THEN /\ wifiReconnecting' = TRUE
                       /\ wifiReconnectStart' = currentMillis
                       /\ ev' = [NoEv("wifiTick") EXCEPT !.wifiReconnects = 1]
                  ELSE /\ ev' = NoEv("wifiTick")
                       /\ UNCHANGED <<wifiReconnecting, wifiReconnectStart>>
          ELSE /\ ev' = NoEv("wifiTick")
               /\ UNCHANGED <<wifiReconnecting, wifiReconnectStart, lastWifiCheck>>
     ELSE /\ ev' = NoEv("wifiTick")
          /\ UNCHANGED <<wifiReconnecting, wifiReconnectStart, lastWifiCheck>>
  /\ UNCHANGED <<bmsLinkUp, lastBmsAttempt, cfgVars, nvsVars, apMode, wifiStatus, bmsVars, haVars, ntpVars, clkVars>>

\* BMS-Verbindung herstellen: `bleOk` is what bmsClient.connect() returns,
\* `rd` what the BMS reports at the first poll
BmsConnectTick(bleOk, rd) ==
  /\ pc = "bmsConnect"
  /\ pc' = "bmsPoll"
  /\ IF BmsConnectDue
     THEN LET upd == updateBMSData(bleOk, rd, bmsData, bmsDataValid, serialOutputEnabled)
          IN  /\ bmsConnected' = bleOk
              /\ bmsLinkUp' = bleOk
              /\ lastBmsAttempt' = currentMillis
              /\ bmsConnectPending' = FALSE
              /\ bmsData' = upd.data
              /\ bmsDataValid' = upd.valid
              /\ lastBmsUpdate' = currentMillis
              /\ ev' = [NoEv("bmsConnect") EXCEPT !.bleConnects = 1,
                                                  !.polls = upd.polls, !.arg = (IF upd.polls = 1 THEN rd ELSE 0),
                                                  !.log = upd.log]
     ELSE IF BmsDiscardDue
     THEN /\ bmsConnectPending' = FALSE                 \* Request verwerfen
          /\ ev' = NoEv("bmsDiscard")
          /\ UNCHANGED <<bmsConnected, bmsData, bmsDataValid, lastBmsUpdate, bmsLinkUp, lastBmsAttempt>>
     ELSE /\ ev' = NoEv("bmsConnect")
          /\ UNCHANGED <<bmsVars, bmsLinkUp, lastBmsAttempt>>
  /\ UNCHANGED <<cfgVars, nvsVars, netVars, haVars, ntpVars, clkVars>>

\* BMS-Daten periodisch abfragen
BmsPollTick(rd) ==
  /\ pc = "bmsPoll"
  /\ pc' = "bmsReconnect"
  /\ IF BmsPollDue
     THEN LET upd == updateBMSData(bmsConnected, rd, bmsData, bmsDataValid, serialOutputEnabled)
          IN  /\ bmsData' = upd.data
              /\ bmsDataValid' = upd.valid
              /\ lastBmsUpdate' = currentMillis
              /\ ev' = [NoEv("bmsPoll") EXCEPT !.polls = upd.polls, !.arg = (IF upd.polls = 1 THEN rd ELSE 0), !.log = upd.log]
     ELSE /\ ev' = NoEv("bmsPoll")
          /\ UNCHANGED <<bmsData, bmsDataValid, lastBmsUpdate>>
  /\ UNCHANGED <<bmsLinkUp, lastBmsAttempt, cfgVars, nvsVars, netVars, bmsConnected, bmsConnectPending,
                 haVars, ntpVars, clkVars>>

\* BMS-Reconnect bei Verbindungsverlust
BmsReconnectTick ==
  /\ pc = "bmsReconnect"
  /\ pc' = "ntp"
  /\ IF BmsReconnectDue
     THEN /\ bmsConnectPending' = TRUE
          /\ ev' = [NoEv("bmsReconnect") EXCEPT !.log = <<LogReconnectPlanned>>]
     ELSE /\ ev' = NoEv("bmsReconnect")
          /\ UNCHANGED bmsConnectPending
  /\ UNCHANGED <<bmsLinkUp, lastBmsAttempt, cfgVars, nvsVars, netVars, bmsConnected, lastBmsUpdate, bmsData,
                 bmsDataValid, haVars, ntpVars, clkVars>>

\* syncNTP(): lastSyncTime after the call; `ntpOk` is getLocalTime's result
syncNTP(ntpOk) == IF ntpOk THEN SyncedTime ELSE lastSyncTime
\* ... and how long the call waited: getLocalTime polls until the clock is
\* set or the 10 s are over
syncNTPWait(ntpOk) == IF ntpOk THEN 0 ELSE NtpWait
\* how long http.POST kept the caller: the whole timeout when the server
\* never answers (HTTPC_ERROR_READ_TIMEOUT)
httpPostWait(http) == IF http.code = 0 - 11 THEN HttpTimeout ELSE 0

\* NTP periodisch synchronisieren
\* (variant) the time-sync section that stamps with millis() after the sync
NtpTick_StampsAfterSync(ntpOk) ==
  /\ pc = "ntp"
  /\ pc' = "ha"
  /\ IF NtpDue
     THEN /\ lastSyncTime' = syncNTP(ntpOk)
          /\ now' = now + syncNTPWait(ntpOk)
          /\ lastNtpSync' = now'
          /\ ev' = [NoEv("ntp") EXCEPT !.reply = "synced"]
     ELSE /\ ev' = NoEv("ntp")
          /\ UNCHANGED <<ntpVars, now>>
  /\ UNCHANGED <<bmsLinkUp, lastBmsAttempt, cfgVars, nvsVars, netVars, bmsVars, haVars,
                 currentMillis>>

NtpTick(ntpOk) ==
  /\ pc = "ntp"
  /\ pc' = "ha"
  /\ IF NtpDue
     THEN /\ lastSyncTime' = syncNTP(ntpOk)
          /\ now' = now + syncNTPWait(ntpOk)
          /\ lastNtpSync' = currentMillis
          /\ ev' = [NoEv("ntp") EXCEPT !.reply = "synced"]
     ELSE /\ ev' = NoEv("ntp")
          /\ UNCHANGED <<ntpVars, now>>
  /\ UNCHANGED <<bmsLinkUp, lastBmsAttempt, cfgVars, nvsVars, netVars, bmsVars, haVars,
                 currentMillis>>

\* Home Assistant Webhook periodisch senden: the condition of the if
HaTick ==
  /\ pc = "ha"
  /\ pc' = IF HaDue THEN "haSend" ELSE "idle"
  /\ ev' = NoEv("haTick")
  /\ UNCHANGED <<bmsLinkUp, lastBmsAttempt, cfgVars, nvsVars, netVars, bmsVars, haVars, ntpVars, clkVars>>

\* (variant) a delivery that marks the delivered reading as used up
HaSend_ConsumesReading(http) ==
  /\ pc = "haSend"
  /\ pc' = "idle"
  /\ LET r == sendToHomeAssistant(haEnabled, http)
     IN  /\ lastHaTime' = r.time
         /\ lastHaHttpCode' = r.code
         /\ lastHaResponse' = r.resp
         /\ bmsDataValid' = (bmsDataValid /\ ~r.result)
         /\ ev' = [NoEv("haSend") EXCEPT !.posts = r.posts, !.arg = (IF r.posts = 1 THEN http ELSE 0),
                          !.payload = (IF r.posts = 1 THEN webhookPayload ELSE <<>>),
                                         !.reply = IF r.result THEN "true" ELSE "false"]
  /\ lastHaSend' = currentMillis
  /\ now' = now + (IF sendToHomeAssistant(haEnabled, http).posts = 1 THEN httpPostWait(http) ELSE 0)
  /\ UNCHANGED <<bmsLinkUp, lastBmsAttempt, cfgVars, nvsVars, netVars, bmsConnected,
                 bmsConnectPending, lastBmsUpdate, bmsData, ntpVars, currentMillis>>

\* ... and its body: sendToHomeAssistant(); lastHaSend = currentMillis
HaSend(http) ==
  /\ pc = "haSend"
  /\ pc' = "idle"
  /\ LET r == sendToHomeAssistant(haEnabled, http)
     IN  /\ lastHaTime' = r.time
         /\ lastHaHttpCode' = r.code
         /\ lastHaResponse' = r.resp
         /\ ev' = [NoEv("haSend") EXCEPT !.posts = r.posts, !.arg = (IF r.posts = 1 THEN http ELSE 0),
                          !.payload = (IF r.posts = 1 THEN webhookPayload ELSE <<>>),
                                         !.reply = IF r.result THEN "true" ELSE "false"]
  /\ lastHaSend' = currentMillis
  /\ now' = now + (IF sendToHomeAssistant(haEnabled, http).posts = 1 THEN httpPostWait(http) ELSE 0)
  /\ UNCHANGED <<bmsLinkUp, lastBmsAttempt, cfgVars, nvsVars, netVars, bmsVars, ntpVars, currentMillis>>

(***************************************************************************)
(* The radio: in station mode the link may drop or come back at any time.  *)
(* Only the steps that read WiFi.status() can tell, so the change is       *)
(* placed right before one of them.                                        *)
(***************************************************************************)
WifiLinkChange ==
  /\ pc \in {"handle", "wifi", "ntp", "ha", "haSend"}
  /\ ~apMode
  /\ wifiStatus' = IF wifiStatus = "WL_CONNECTED" THEN "WL_DISCONNECTED" ELSE "WL_CONNECTED"
  /\ ev' = NoEv("radio")
  /\ UNCHANGED <<bmsLinkUp, lastBmsAttempt, cfgVars, nvsVars, apMode, wifiReconnecting, wifiReconnectStart,
                 lastWifiCheck, bmsVars, haVars, ntpVars, pc, clkVars>>

\* The BLE link to the BMS may be lost at any time; nothing in the firmware
\* is told, so the loss is placed between two iterations of loop().
BmsLinkLoss ==
  /\ pc = "idle"
  /\ bmsLinkUp
  /\ bmsLinkUp' = FALSE
  /\ UNCHANGED lastBmsAttempt
  /\ ev' = NoEv("bleLinkLost")
  /\ UNCHANGED <<cfgVars, nvsVars, netVars, bmsVars, haVars, ntpVars, pc, clkVars>>

\* a request can reach the web server over the soft AP or an established WLAN link
Reachable == apMode \/ wifiStatus = "WL_CONNECTED"

(***************************************************************************)
(* Request handlers: server.handleClient() serves one request              *)
(***************************************************************************)
\* POST /api/bluetooth {"enabled": en}
\* (variant) arming whatever the connection state
ApiBluetoothArms_Always(en) == en

ApiBluetoothArms(en) == en /\ ~bmsConnected /\ ~bmsConnectPending

\* (variant) the disable request that also marks the last reading as stale
ApiBluetooth_DisableInvalidates(en) ==
  /\ pc = "handle"
  /\ pc' = "wifi"
  /\ bluetoothEnabled' = en
  /\ nvsSettings' = saveSettings(nvsSettings, timezone, bmsInterval, en, bmsMac,
                                 haWebhookUrl, haInterval, haEnabled, serialOutputEnabled)
  /\ IF ApiBluetoothArms(en)
     THEN /\ bmsConnectPending' = TRUE
          /\ ev' = [NoEv("apiBluetooth") EXCEPT !.reply = "success",
                                                !.log = <<LogConnectRequested>>]
          /\ UNCHANGED <<bmsConnected, bmsLinkUp, lastBmsAttempt, bmsDataValid>>
     ELSE IF ~en /\ bmsConnected
     THEN /\ bmsConnected' = FALSE
          /\ bmsLinkUp' = FALSE
          /\ UNCHANGED lastBmsAttempt
          /\ bmsConnectPending' = FALSE
          /\ bmsDataValid' = FALSE
          /\ ev' = [NoEv("apiBluetooth") EXCEPT !.reply = "success", !.bleDisconnects = 1]
     ELSE /\ ev' = [NoEv("apiBluetooth") EXCEPT !.reply = "success"]
          /\ UNCHANGED <<bmsConnected, bmsConnectPending, bmsLinkUp, lastBmsAttempt, bmsDataValid>>
  /\ UNCHANGED <<timezone, bmsInterval, bmsMac, haWebhookUrl, haInterval, haEnabled,
                 serialOutputEnabled, nvsWifi, netVars, lastBmsUpdate, bmsData,
                 haVars, ntpVars, clkVars>>

\* (variant) the disable request that leaves an established connection up
ApiBluetooth_DisableKeepsLink(en) ==
  /\ pc = "handle"
  /\ pc' = "wifi"
  /\ bluetoothEnabled' = en
  /\ nvsSettings' = saveSettings(nvsSettings, timezone, bmsInterval, en, bmsMac,
                                 haWebhookUrl, haInterval, haEnabled, serialOutputEnabled)
  /\ IF ApiBluetoothArms(en)
     THEN /\ bmsConnectPending' = TRUE
          /\ ev' = [NoEv("apiBluetooth") EXCEPT !.reply = "success",
                                                !.log = <<LogConnectRequested>>]
          /\ UNCHANGED <<bmsConnected, bmsLinkUp, lastBmsAttempt>>
     ELSE /\ ev' = [NoEv("apiBluetooth") EXCEPT !.reply = "success"]
          /\ UNCHANGED <<bmsConnected, bmsConnectPending, bmsLinkUp, lastBmsAttempt>>
  /\ UNCHANGED <<timezone, bmsInterval, bmsMac, haWebhookUrl, haInterval, haEnabled,
                 serialOutputEnabled, nvsWifi, netVars, lastBmsUpdate, bmsData,
                 bmsDataValid, haVars, ntpVars, clkVars>>

\* (variant) the enable request that connects before it answers
ApiBluetooth_ConnectsInline(en) ==
  /\ pc = "handle"
  /\ pc' = "wifi"
  /\ bluetoothEnabled' = en
  /\ nvsSettings' = saveSettings(nvsSettings, timezone, bmsInterval, en, bmsMac,
                                 haWebhookUrl, haInterval, haEnabled, serialOutputEnabled)
  /\ IF ApiBluetoothArms(en)
     THEN /\ bmsConnected' = TRUE
          /\ bmsLinkUp' = TRUE
          /\ lastBmsAttempt' = currentMillis
          /\ ev' = [NoEv("apiBluetooth") EXCEPT !.reply = "success", !.bleConnects = 1]
          /\ UNCHANGED bmsConnectPending
     ELSE IF ~en /\ bmsConnected
     THEN /\ bmsConnected' = FALSE
          /\ bmsLinkUp' = FALSE
          /\ UNCHANGED lastBmsAttempt
          /\ bmsConnectPending' = FALSE
          /\ ev' = [NoEv("apiBluetooth") EXCEPT !.reply = "success", !.bleDisconnects = 1]
     ELSE /\ ev' = [NoEv("apiBluetooth") EXCEPT !.reply = "success"]
          /\ UNCHANGED <<bmsConnected, bmsConnectPending, bmsLinkUp, lastBmsAttempt>>
  /\ UNCHANGED <<timezone, bmsInterval, bmsMac, haWebhookUrl, haInterval, haEnabled,
                 serialOutputEnabled, nvsWifi, netVars, lastBmsUpdate, bmsData,
                 bmsDataValid, haVars, ntpVars, clkVars>>

ApiBluetooth(en) ==
  /\ pc = "handle"
  /\ pc' = "wifi"
  /\ bluetoothEnabled' = en
  /\ nvsSettings' = saveSettings(nvsSettings, timezone, bmsInterval, en, bmsMac,
                                 haWebhookUrl, haInterval, haEnabled, serialOutputEnabled)
  /\ IF ApiBluetoothArms(en)
     THEN /\ bmsConnectPending' = TRUE
          /\ ev' = [NoEv("apiBluetooth") EXCEPT !.reply = "success",
                                                !.log = <<LogConnectRequested>>]
          /\ UNCHANGED <<bmsConnected, bmsLinkUp, lastBmsAttempt>>
     ELSE IF ~en /\ bmsConnected
     THEN /\ bmsConnected' = FALSE                 \* after bmsClient.disconnect()
          /\ bmsLinkUp' = FALSE
          /\ UNCHANGED lastBmsAttempt
          /\ bmsConnectPending' = FALSE
          /\ ev' = [NoEv("apiBluetooth") EXCEPT !.reply = "success", !.bleDisconnects = 1]
     ELSE /\ ev' = [NoEv("apiBluetooth") EXCEPT !.reply = "success"]
          /\ UNCHANGED <<bmsConnected, bmsConnectPending, bmsLinkUp, lastBmsAttempt>>
  /\ UNCHANGED <<timezone, bmsInterval, bmsMac, haWebhookUrl, haInterval, haEnabled,
                 serialOutputEnabled, nvsWifi, netVars, lastBmsUpdate, bmsData,
                 bmsDataValid, haVars, ntpVars, clkVars>>

\* POST /api/serial {"enabled": en}
ApiSerial(en) ==
  /\ pc = "handle"
  /\ pc' = "wifi"
  /\ serialOutputEnabled' = en
  /\ nvsSettings' = saveSettings(nvsSettings, timezone, bmsInterval, bluetoothEnabled, bmsMac,
                                 haWebhookUrl, haInterval, haEnabled, en)
  /\ ev' = [NoEv("apiSerial") EXCEPT !.reply = "success"]
  /\ UNCHANGED <<bmsLinkUp, lastBmsAttempt, timezone, bmsInterval, bluetoothEnabled, bmsMac, haWebhookUrl, haInterval,
                 haEnabled, nvsWifi, netVars, bmsVars, haVars, ntpVars, clkVars>>

\* (variant) only the lower of the two ifs
ClampInterval_LowerOnly(requested, lo, hi) == IF requested < lo THEN lo ELSE requested

\* the two ifs that bring a requested interval into [lo, hi]
ClampInterval(requested, lo, hi) ==
  LET raised == IF requested < lo THEN lo ELSE requested
  IN  IF raised > hi THEN hi ELSE raised

\* POST /api/bms-settings {"mac": newMac, "interval": newInterval}
\* (variant) the settings request that takes any different MAC as a change
ApiBmsSettings_AnyMacRestarts(newMac, newInterval) ==
  /\ pc = "handle"
  /\ LET interval   == ClampInterval(newInterval, 5, 300)
         macChanged == newMac # bmsMac
         mac        == IF macChanged THEN newMac ELSE bmsMac
     IN  /\ nvsSettings' = saveSettings(nvsSettings, timezone, interval, bluetoothEnabled, mac,
                                        haWebhookUrl, haInterval, haEnabled, serialOutputEnabled)
         /\ IF macChanged
            THEN /\ Restarted
                 /\ ev' = [NoEv("apiBmsSettings") EXCEPT !.arg = newInterval, !.mac = newMac, !.reply = "success",
                                                          !.restart = TRUE]
            ELSE /\ bmsInterval' = interval
                 /\ pc' = "wifi"
                 /\ ev' = [NoEv("apiBmsSettings") EXCEPT !.arg = newInterval, !.mac = newMac, !.reply = "success"]
                 /\ UNCHANGED <<timezone, bluetoothEnabled, bmsMac, haWebhookUrl, haInterval,
                                haEnabled, serialOutputEnabled, netVars, bmsVars, bmsLinkUp, lastBmsAttempt,
                                haVars, ntpVars, clkVars>>
  /\ UNCHANGED nvsWifi

\* (variant) the settings request that drops the whole request on a malformed MAC
ApiBmsSettings_RejectsWhole(newMac, newInterval) ==
  /\ pc = "handle"
  /\ LET interval   == ClampInterval(newInterval, 5, 300)
         macChanged == newMac # bmsMac /\ Len(newMac) = MacLength
         mac        == IF macChanged THEN newMac ELSE bmsMac
     IN  IF Len(newMac) # MacLength
         THEN /\ pc' = "wifi"
              /\ ev' = [NoEv("apiBmsSettings") EXCEPT !.arg = newInterval, !.mac = newMac, !.reply = "success"]
              /\ UNCHANGED <<cfgVars, nvsSettings, netVars, bmsVars, bmsLinkUp, lastBmsAttempt,
                             haVars, ntpVars, clkVars>>
         ELSE
         /\ nvsSettings' = saveSettings(nvsSettings, timezone, interval, bluetoothEnabled, mac,
                                        haWebhookUrl, haInterval, haEnabled, serialOutputEnabled)
         /\ IF macChanged
            THEN /\ Restarted
                 /\ ev' = [NoEv("apiBmsSettings") EXCEPT !.arg = newInterval, !.mac = newMac, !.reply = "success",
                                                          !.restart = TRUE]
            ELSE /\ bmsInterval' = interval
                 /\ pc' = "wifi"
                 /\ ev' = [NoEv("apiBmsSettings") EXCEPT !.arg = newInterval, !.mac = newMac, !.reply = "success"]
                 /\ UNCHANGED <<timezone, bluetoothEnabled, bmsMac, haWebhookUrl, haInterval,
                                haEnabled, serialOutputEnabled, netVars, bmsVars, bmsLinkUp, lastBmsAttempt,
                                haVars, ntpVars, clkVars>>
  /\ UNCHANGED nvsWifi

ApiBmsSettings(newMac, newInterval) ==
  /\ pc = "handle"
  /\ LET interval   == ClampInterval(newInterval, 5, 300)
         macChanged == newMac # bmsMac /\ Len(newMac) = MacLength
         mac        == IF macChanged THEN newMac ELSE bmsMac
     IN  /\ nvsSettings' = saveSettings(nvsSettings, timezone, interval, bluetoothEnabled, mac,
                                        haWebhookUrl, haInterval, haEnabled, serialOutputEnabled)
         /\ IF macChanged
            THEN /\ Restarted
                 /\ ev' = [NoEv("apiBmsSettings") EXCEPT !.arg = newInterval, !.mac = newMac, !.reply = "success",
                                                          !.restart = TRUE]
            ELSE /\ bmsInterval' = interval
                 /\ pc' = "wifi"
                 /\ ev' = [NoEv("apiBmsSettings") EXCEPT !.arg = newInterval, !.mac = newMac, !.reply = "success"]
                 /\ UNCHANGED <<timezone, bluetoothEnabled, bmsMac, haWebhookUrl, haInterval,
                                haEnabled, serialOutputEnabled, netVars, bmsVars, bmsLinkUp, lastBmsAttempt,
                                haVars, ntpVars, clkVars>>
  /\ UNCHANGED nvsWifi

\* POST /api/timezone {"timezone": tz}: saved, then syncNTP()
ApiTimezone(tz, ntpOk) ==
  /\ pc = "handle"
  /\ pc' = "wifi"
  /\ timezone' = tz
  /\ nvsSettings' = saveSettings(nvsSettings, tz, bmsInterval, bluetoothEnabled, bmsMac,
                                 haWebhookUrl, haInterval, haEnabled, serialOutputEnabled)
  /\ lastSyncTime' = syncNTP(ntpOk)
  /\ now' = now + syncNTPWait(ntpOk)
  /\ ev' = [NoEv("apiTimezone") EXCEPT !.reply = "success"]
  /\ UNCHANGED <<bmsLinkUp, lastBmsAttempt, bmsInterval, bluetoothEnabled, bmsMac, haWebhookUrl, haInterval, haEnabled,
                 serialOutputEnabled, nvsWifi, netVars, bmsVars, haVars, lastNtpSync, currentMillis>>

\* POST /api/ha-settings {"enabled": en, "url": url, "interval": interval}
ApiHaSettings(en, url, interval) ==
  /\ pc = "handle"
  /\ pc' = "wifi"
  /\ haEnabled' = en
  /\ haWebhookUrl' = url
  /\ haInterval' = ClampInterval(interval, 10, 3600)
  /\ nvsSettings' = saveSettings(nvsSettings, timezone, bmsInterval, bluetoothEnabled, bmsMac,
                                 url, ClampInterval(interval, 10, 3600), en,
                                 serialOutputEnabled)
  /\ ev' = [NoEv("apiHaSettings") EXCEPT !.arg = interval, !.reply = "success"]
  /\ UNCHANGED <<bmsLinkUp, lastBmsAttempt, timezone, bmsInterval, bluetoothEnabled, bmsMac, serialOutputEnabled,
                 nvsWifi, netVars, bmsVars, haVars, ntpVars, clkVars>>

\* (variant) the manual test that leaves the feature switched on
ApiHaTest_KeepsOverride(http) ==
  /\ pc = "handle"
  /\ pc' = "wifi"
  /\ IF apMode
     THEN /\ ev' = [NoEv("apiHaTest") EXCEPT !.reply = "Nicht im AP-Modus moeglich"]
          /\ UNCHANGED <<haEnabled, lastHaTime, lastHaHttpCode, lastHaResponse, now>>
     ELSE IF Len(haWebhookUrl) = 0
     THEN /\ ev' = [NoEv("apiHaTest") EXCEPT !.reply = "Keine Webhook URL konfiguriert"]
          /\ UNCHANGED <<haEnabled, lastHaTime, lastHaHttpCode, lastHaResponse, now>>
     ELSE LET wasEnabled == haEnabled
              r == sendToHomeAssistant(TRUE, http)      \* haEnabled = true during the call
          IN  /\ haEnabled' = TRUE
              /\ now' = now + (IF r.posts = 1 THEN httpPostWait(http) ELSE 0)
              /\ lastHaTime' = r.time
              /\ lastHaHttpCode' = r.code
              /\ lastHaResponse' = r.resp
              /\ ev' = [NoEv("apiHaTest") EXCEPT
                          !.posts = r.posts, !.arg = (IF r.posts = 1 THEN http ELSE 0),
                          !.payload = (IF r.posts = 1 THEN webhookPayload ELSE <<>>),
                          !.reply = IF r.result THEN "success" ELSE "HTTP Fehler"]
  /\ UNCHANGED <<bmsLinkUp, lastBmsAttempt, timezone, bmsInterval, bluetoothEnabled, bmsMac,
                 haWebhookUrl, haInterval, serialOutputEnabled, nvsVars, netVars, bmsVars,
                 lastHaSend, ntpVars, currentMillis>>

\* POST /api/ha-test: one webhook at once, haEnabled forced to true during the call
ApiHaTest(http) ==
  /\ pc = "handle"
  /\ pc' = "wifi"
  /\ IF apMode
     THEN /\ ev' = [NoEv("apiHaTest") EXCEPT !.reply = "Nicht im AP-Modus moeglich"]
          /\ UNCHANGED <<haEnabled, lastHaTime, lastHaHttpCode, lastHaResponse, now>>
     ELSE IF Len(haWebhookUrl) = 0
     THEN /\ ev' = [NoEv("apiHaTest") EXCEPT !.reply = "Keine Webhook URL konfiguriert"]
          /\ UNCHANGED <<haEnabled, lastHaTime, lastHaHttpCode, lastHaResponse, now>>
     ELSE LET wasEnabled == haEnabled
              r == sendToHomeAssistant(TRUE, http)      \* haEnabled = true during the call
          IN  /\ haEnabled' = wasEnabled                   \* haEnabled = wasEnabled
              /\ now' = now + (IF r.posts = 1 THEN httpPostWait(http) ELSE 0)
              /\ lastHaTime' = r.time
              /\ lastHaHttpCode' = r.code
              /\ lastHaResponse' = r.resp
              /\ ev' = [NoEv("apiHaTest") EXCEPT
                          !.posts = r.posts, !.arg = (IF r.posts = 1 THEN http ELSE 0),
                          !.payload = (IF r.posts = 1 THEN webhookPayload ELSE <<>>),
                          !.reply = IF r.result THEN "success" ELSE "HTTP Fehler"]
  /\ UNCHANGED <<bmsLinkUp, lastBmsAttempt, timezone, bmsInterval, bluetoothEnabled, bmsMac,
                 haWebhookUrl, haInterval, serialOutputEnabled, nvsVars, netVars, bmsVars,
                 lastHaSend, ntpVars, currentMillis>>

\* (variant) the reset request that wipes the password only
ApiResetWifi_KeepsSsid ==
  /\ pc = "handle"
  /\ nvsWifi' = [nvsWifi EXCEPT !["password"] = <<>>]
  /\ Restarted
  /\ ev' = [NoEv("apiResetWifi") EXCEPT !.reply = "success", !.restart = TRUE]
  /\ UNCHANGED nvsSettings

\* POST /api/reset-wifi and POST /reset: preferences.clear() on "wifi", restart
ApiResetWifi ==
  /\ pc = "handle"
  /\ nvsWifi' = EmptyNamespace(WifiKeys)
  /\ Restarted
  /\ ev' = [NoEv("apiResetWifi") EXCEPT !.reply = "success", !.restart = TRUE]
  /\ UNCHANGED nvsSettings

\* POST /connect: `linkUp` is WiFi.status() == WL_CONNECTED after the 15 s wait
\* (variant) the connect request that stores the credentials before it knows
handleConnect_StoresFirst(ssid, password, linkUp) ==
  /\ pc = "handle"
  /\ pc' = "wifi"
  /\ nvsWifi' = PrefPut(PrefPut(nvsWifi, "ssid", ssid), "password", password)
  /\ IF linkUp
     THEN /\ apMode' = FALSE
          /\ wifiStatus' = "WL_CONNECTED"
          /\ ev' = [NoEv("handleConnect") EXCEPT !.arg = ssid, !.wifiBegins = 1,
                                                 !.reply = "success"]
          /\ UNCHANGED now
     ELSE /\ apMode' = TRUE
          /\ wifiStatus' = "WL_DISCONNECTED"
          /\ now' = now + ConnectWait
          /\ ev' = [NoEv("handleConnect") EXCEPT !.arg = ssid, !.wifiBegins = 1,
                                                 !.reply = "Verbindung fehlgeschlagen"]
  /\ UNCHANGED <<bmsLinkUp, lastBmsAttempt, cfgVars, nvsSettings, wifiReconnecting, wifiReconnectStart, lastWifiCheck,
                 bmsVars, haVars, ntpVars, currentMillis>>

handleConnect(ssid, password, linkUp) ==
  /\ pc = "handle"
  /\ pc' = "wifi"
  /\ IF linkUp
     THEN /\ nvsWifi' = PrefPut(PrefPut(nvsWifi, "ssid", ssid), "password", password)
          /\ apMode' = FALSE
          /\ wifiStatus' = "WL_CONNECTED"
          /\ ev' = [NoEv("handleConnect") EXCEPT !.arg = ssid, !.wifiBegins = 1,
                                                 !.reply = "success"]
          /\ UNCHANGED now
     ELSE /\ apMode' = TRUE                        \* startAP()
          /\ wifiStatus' = "WL_DISCONNECTED"
          /\ now' = now + ConnectWait               \* the wait loop ran to its end
          /\ ev' = [NoEv("handleConnect") EXCEPT !.arg = ssid, !.wifiBegins = 1,
                                                 !.reply = "Verbindung fehlgeschlagen"]
          /\ UNCHANGED nvsWifi
  /\ UNCHANGED <<bmsLinkUp, lastBmsAttempt, cfgVars, nvsSettings, wifiReconnecting, wifiReconnectStart, lastWifiCheck,
                 bmsVars, haVars, ntpVars, currentMillis>>

(***************************************************************************)
(* Inputs and next-state relations.  The firmware is explored under four   *)
(* environments, one per subsystem, and the pure gate on a grid; each      *)
(* environment sends the requests of its subsystem and leaves the other    *)
(* subsystems in the state setup() put them in.                            *)
(***************************************************************************)
BmsMacA == "C8:47:80:3F:67:7C"
WebhookA == "http://ha.local:8123/api/webhook/bms"
\* an NVS "settings" namespace as a configured device holds it
SavedSettings(btEn, mac, url, haIv, haEn) ==
  saveSettings(EmptyNamespace(SettingsKeys), DefaultTimezone, 20, btEn, mac, url, haIv, haEn, TRUE)

Boot(Ups, NtpOks, BleOks, Rds) ==
  \E up \in Ups, ntpOk \in NtpOks, bleOk \in BleOks, rd \in Rds : Setup(up, ntpOk, bleOk, rd)

\* loop() from its top to the webhook condition
LoopTicks(Elapsed, ticks, BleOks, Rds, NtpOks) ==
  \/ \E d \in Elapsed : /\ (now + d) % ntpSyncInterval <= Horizon(ticks)
                         /\ now + d < 2 * ntpSyncInterval
                         /\ LoopBegin(d)
  \/ HandleNone
  \/ WifiTick
  \/ \E bleOk \in BleOks, rd \in Rds : BmsConnectTick(bleOk, rd)
  \/ \E rd \in Rds : BmsPollTick(rd)
  \/ BmsReconnectTick
  \/ \E ok \in NtpOks : NtpTick(ok)
  \/ HaTick

(* ---- peripheral (BMS) environment ---- *)
InitBms ==
  /\ RamInit
  /\ pc = "boot"
  /\ nvsSettings \in {EmptyNamespace(SettingsKeys), SavedSettings(TRUE, BmsMacA, "", 60, FALSE)}
  /\ nvsWifi = EmptyNamespace(WifiKeys)
  /\ ev = NoEv("power-on")

NextBms ==
  \/ Boot({FALSE}, {FALSE}, BOOLEAN, Readings)
  \/ LoopTicks({Tick}, MaxTicks, BOOLEAN, Readings, {FALSE})
  \/ \E en \in BOOLEAN : ApiBluetooth(en)
  \/ \E mac \in {BmsMacA, "C8:47"}, iv \in {5} : ApiBmsSettings(mac, iv)
  \/ BmsLinkLoss

SpecBms == InitBms /\ [][NextBms]_vars

(* ---- delivery (webhook) environment ---- *)
GoodReading == Reading(26400, 85, <<3300, 3300>>)
InitHa ==
  /\ RamInit
  /\ pc = "boot"
  /\ nvsSettings \in {SavedSettings(TRUE, BmsMacA, WebhookA, 60, TRUE),
                      SavedSettings(TRUE, BmsMacA, "", 60, FALSE)}
  /\ nvsWifi \in {EmptyNamespace(WifiKeys), SavedWifi}
  /\ ev = NoEv("power-on")

HttpResultsHa ==
  {[code |-> 200, body |-> "OK"], [code |-> 404, body |-> "404: Not Found"],
   [code |-> 0 - 1, body |-> ""]}

NextHa ==
  \/ Boot(BOOLEAN, {TRUE}, {TRUE}, {EmptyData, GoodReading})
  \/ LoopTicks({Tick}, MaxTicksHa, {TRUE}, {EmptyData, GoodReading}, {TRUE})
  \/ \E http \in HttpResultsHa : HaSend(http)
  \/ WifiLinkChange
  \/ Reachable /\ \E en \in BOOLEAN, url \in {"", WebhookA}, iv \in {30} :
                    ApiHaSettings(en, url, iv)
  \/ Reachable /\ \E http \in HttpResultsHa : ApiHaTest(http)
  \/ Reachable /\ \E up \in BOOLEAN : handleConnect("home", "secret", up)

SpecHa == InitHa /\ [][NextHa]_vars

(* ---- network (WLAN) environment ---- *)
InitNet ==
  /\ RamInit
  /\ pc = "boot"
  /\ nvsSettings = EmptyNamespace(SettingsKeys)
  /\ nvsWifi \in {EmptyNamespace(WifiKeys), SavedWifi}
  /\ ev = NoEv("power-on")

NextNet ==
  \/ Boot(BOOLEAN, BOOLEAN, {FALSE}, {EmptyData})
  \/ LoopTicks({Tick, ntpSyncInterval}, MaxTicks, {FALSE}, {EmptyData}, BOOLEAN)
  \/ WifiLinkChange
  \/ Reachable /\ ApiResetWifi
  \/ Reachable /\ \E ssid \in {"home", "guest"}, up \in BOOLEAN :
                    handleConnect(ssid, "secret", up)

SpecNet == InitNet /\ [][NextNet]_vars

(* ---- configuration environment: every settings request, no time passing ---- *)
\* requested intervals, as doc["interval"].as<unsigned long>() yields them
BmsIntervalInputs == {0, 4, 5, 6, 20, 299, 300, 301, 2147483647}
HaIntervalInputs == {0, 5, 9, 10, 11, 60, 3599, 3600, 3601, 10000, 2147483647}

InitCfg ==
  /\ RamInit
  /\ pc = "boot"
  /\ nvsSettings = EmptyNamespace(SettingsKeys)
  /\ nvsWifi = EmptyNamespace(WifiKeys)
  /\ ev = NoEv("power-on")

NextCfg ==
  \/ Boot({FALSE}, {FALSE}, {FALSE}, {EmptyData})
  \/ LoopTicks({0}, 1, {FALSE}, {EmptyData}, {FALSE})
  \/ \E en \in BOOLEAN : ApiBluetooth(en)
  \/ \E en \in BOOLEAN : ApiSerial(en)
  \/ \E mac \in {BmsMacA, "C8:47", "C8:47:80:3F:67:7C:"}, iv \in BmsIntervalInputs :
        ApiBmsSettings(mac, iv)
  \/ \E tz \in {"UTC0"} : ApiTimezone(tz, FALSE)
  \/ \E en \in BOOLEAN, url \in {"", WebhookA}, iv \in HaIntervalInputs :
        ApiHaSettings(en, url, iv)
  \/ \E http \in HttpResultsHa : ApiHaTest(http)
  \/ ApiResetWifi

SpecCfg == InitCfg /\ [][NextCfg]_vars

(* ---- the validity gate on its grid ---- *)
InitGate ==
  /\ RamInit
  /\ pc = "gate"
  /\ nvsSettings = EmptyNamespace(SettingsKeys)
  /\ nvsWifi = EmptyNamespace(WifiKeys)
  /\ ev = NoEv("power-on")

\* one poll of a connected BMS that reports `rd`
GatePoll(rd) ==
  /\ pc = "gate"
  /\ pc' = "polled"
  /\ LET upd == updateBMSData(TRUE, rd, bmsData, bmsDataValid, serialOutputEnabled)
     IN  /\ bmsData' = upd.data
         /\ bmsDataValid' = upd.valid
         /\ ev' = [NoEv("bmsPoll") EXCEPT !.polls = upd.polls, !.arg = (IF upd.polls = 1 THEN rd ELSE 0), !.log = upd.log]
  /\ UNCHANGED <<bmsLinkUp, lastBmsAttempt, cfgVars, nvsVars, netVars, bmsConnected, bmsConnectPending, lastBmsUpdate,
                 haVars, ntpVars, clkVars>>

NextGate == \E rd \in GateReadings : GatePoll(rd)

SpecGate == InitGate /\ [][NextGate]_vars

(* ---- whole-device environment: every kind of failure and every request
        that can restart the device, over a short run ---- *)
DeviceReadings == {EmptyData, GoodReading, Reading(26400, 85, <<3300, 4100>>)}
HttpResultsDevice ==
  {[code |-> 200, body |-> "OK"], [code |-> 0 - 1, body |-> ""], [code |-> 0 - 11, body |-> ""]}

InitDevice ==
  /\ RamInit
  /\ pc = "boot"
  /\ nvsSettings = SavedSettings(TRUE, BmsMacA, WebhookA, 10, TRUE)
  /\ nvsWifi = SavedWifi
  /\ ev = NoEv("power-on")

NextDevice ==
  \/ Boot(BOOLEAN, BOOLEAN, BOOLEAN, DeviceReadings)
  \/ LoopTicks({Tick}, MaxTicksDevice, BOOLEAN, DeviceReadings, BOOLEAN)
  \/ \E http \in HttpResultsDevice : HaSend(http)
  \/ WifiLinkChange
  \/ BmsLinkLoss
  \/ Reachable /\ \E mac \in {BmsMacA, "C8:47:80:3F:67:7D", "C8:47"}, iv \in {0, 301} :
                    ApiBmsSettings(mac, iv)
  \/ Reachable /\ ApiResetWifi
  \/ Reachable /\ \E up \in BOOLEAN : handleConnect("home", "secret", up)

SpecDevice == InitDevice /\ [][NextDevice]_vars

(* ---- every step that writes a shared record: the whole device with the
        Bluetooth switch and the manual webhook test ---- *)
NextShared ==
  \/ Boot(BOOLEAN, BOOLEAN, BOOLEAN, DeviceReadings)
  \/ LoopTicks({Tick}, MaxTicksShared, BOOLEAN, DeviceReadings, BOOLEAN)
  \/ \E http \in HttpResultsDevice : HaSend(http)
  \/ WifiLinkChange
  \/ BmsLinkLoss
  \/ Reachable /\ \E mac \in {BmsMacA, "C8:47:80:3F:67:7D"}, iv \in {301} : ApiBmsSettings(mac, iv)
  \/ Reachable /\ ApiResetWifi
  \/ Reachable /\ \E up \in BOOLEAN : handleConnect("home", "secret", up)
  \/ Reachable /\ \E en \in BOOLEAN : ApiBluetooth(en)
  \/ Reachable /\ \E http \in HttpResultsDevice : ApiHaTest(http)

SpecShared == InitDevice /\ [][NextShared]_vars

(* ---- delivery results: a configured device with a plausible reading, and
        every answer the webhook may get ---- *)
\* handleApiStatus: doc["cloudOk"]
cloudOk == haEnabled /\ lastHaHttpCode = 200

NextPost ==
  \/ Boot({TRUE}, {TRUE}, {TRUE}, {GoodReading})
  \/ LoopTicks({Tick}, MaxTicksPost, {TRUE}, {GoodReading}, {TRUE})
  \/ \E http \in HttpResults : HaSend(http)
  \/ Reachable /\ \E http \in HttpResults : ApiHaTest(http)

SpecPost == InitDevice /\ [][NextPost]_vars

(* ---- the due checks on the 32-bit millisecond counter.  An unsigned long
        of the ESP32 is held as two 16-bit halves, since 2^32 is beyond the
        integers of the model checker; sums and differences are taken
        modulo 2^32 as the hardware takes them. ---- *)
Half == 65536
U32(n) == [hi |-> (n \div Half) % Half, lo |-> n % Half]
Add32(a, b) ==
  LET lo == a.lo + b.lo
  IN  [hi |-> (a.hi + b.hi + lo \div Half) % Half, lo |-> lo % Half]
Sub32(a, b) ==
  LET lo == a.lo - b.lo
      borrow == IF lo < 0 THEN 1 ELSE 0
  IN  [hi |-> (a.hi - b.hi - borrow + 2 * Half) % Half, lo |-> (lo + Half) % Half]
Geq32(a, b) == a.hi > b.hi \/ (a.hi = b.hi /\ a.lo >= b.lo)
Gt32(a, b) == a.hi > b.hi \/ (a.hi = b.hi /\ a.lo > b.lo)

\* (variant) the difference taken the other way round: last + interval <= now
Elapsed32_AddsInterval(currentMillis32, last32, interval32, strict) ==
  IF strict THEN Gt32(currentMillis32, Add32(last32, interval32))
  ELSE Geq32(currentMillis32, Add32(last32, interval32))

\* currentMillis - last >= interval (or > interval), all unsigned long
Elapsed32(currentMillis32, last32, interval32, strict) ==
  IF strict THEN Gt32(Sub32(currentMillis32, last32), interval32)
  ELSE Geq32(Sub32(currentMillis32, last32), interval32)

\* the six timers of loop(): the interval in ms and the comparison used
LoopTimers ==
  { [name |-> "wifiCheck",        interval |-> wifiCheckInterval,    strict |-> FALSE],
    [name |-> "wifiReconnect",    interval |-> WifiReconnectTimeout, strict |-> TRUE],
    [name |-> "bmsPoll",          interval |-> 5 * 1000,             strict |-> FALSE],
    [name |-> "bmsPoll",          interval |-> 300 * 1000,           strict |-> FALSE],
    [name |-> "bmsReconnect",     interval |-> BmsReconnectInterval, strict |-> FALSE],
    [name |-> "ntp",              interval |-> ntpSyncInterval,      strict |-> FALSE],
    [name |-> "ha",               interval |-> 10 * 1000,            strict |-> FALSE],
    [name |-> "ha",               interval |-> 3600 * 1000,          strict |-> FALSE] }

\* values of `last`, up to the last millisecond before the wrap
WrapLasts ==
  { U32(0), U32(1), U32(2147483647),
    [hi |-> Half \div 2, lo |-> 0],
    [hi |-> Half - 1, lo |-> Half - 30001],
    [hi |-> Half - 1, lo |-> Half - 15000],
    [hi |-> Half - 1, lo |-> Half - 1] }

\* true elapsed times around an interval and up to 2^32 - 1 ms
WrapElapsed(interval) ==
  { U32(0), U32(1), U32(interval - 1), U32(interval), U32(interval + 1),
    U32(2147483647), [hi |-> Half \div 2, lo |-> 0], [hi |-> Half - 1, lo |-> Half - 1] }

InitWrap ==
  /\ RamInit
  /\ pc = "wrap"
  /\ nvsSettings = EmptyNamespace(SettingsKeys)
  /\ nvsWifi = EmptyNamespace(WifiKeys)
  /\ ev = NoEv("power-on")

\* one due check, `elapsed` ms after the timestamp `last` was taken
DueCheck(timer, last, elapsed) ==
  /\ pc = "wrap"
  /\ pc' = "wrapped"
  /\ LET currentMillis32 == Add32(last, elapsed)
     IN  ev' = [NoEv("dueCheck") EXCEPT
                  !.arg = [timer |-> timer, last |-> last, elapsed |-> elapsed,
                           currentMillis |-> currentMillis32,
                           fired |-> Elapsed32(currentMillis32, last, U32(timer.interval),
                                               timer.strict)]]
  /\ UNCHANGED <<bmsLinkUp, lastBmsAttempt, cfgVars, nvsVars, netVars, bmsVars, haVars,
                 ntpVars, clkVars>>

NextWrap ==
  \E timer \in LoopTimers, last \in WrapLasts : \E elapsed \in WrapElapsed(timer.interval) :
     DueCheck(timer, last, elapsed)

SpecWrap == InitWrap /\ [][NextWrap]_vars

(* ---- every timer of loop(): a configured device over seconds and over
        the hour of the time sync, with waits that let the clock run on
        inside an iteration ---- *)
NextTimers ==
  \/ Boot(BOOLEAN, BOOLEAN, BOOLEAN, {GoodReading})
  \/ LoopTicks({Tick, ntpSyncInterval}, MaxTicksTimers, BOOLEAN, {GoodReading}, BOOLEAN)
  \/ \E http \in {[code |-> 200, body |-> "OK"], [code |-> 0 - 11, body |-> ""]} : HaSend(http)
  \/ WifiLinkChange
  \/ Reachable /\ \E up \in BOOLEAN : handleConnect("home", "secret", up)

SpecTimers == InitDevice /\ [][NextTimers]_vars

(***************************************************************************)
(* Properties                                                              *)
(***************************************************************************)
Logged(line) == \E i \in 1..Len(ev.log) : ev.log[i] = line
LoggedNext(line) == \E i \in 1..Len(ev'.log) : ev'.log[i] = line

\* C1: a step issues an HTTP POST only from the periodic dispatch or the
\* manual test, at most one, and only while the feature is enabled (or the
\* step is the manual test, which overrides it), the endpoint URL is
\* non-empty, the device is not in AP mode, the WLAN link is connected and
\* the validity flag is true; when one of these fails no POST is issued.
C1_PostOnlyWhenPreconditionsHold ==
  /\ ev.posts \in {0, 1}
  /\ ev.posts = 1 =>
        /\ ev.op \in {"haSend", "apiHaTest"}
        /\ haEnabled \/ ev.op = "apiHaTest"
        /\ Len(haWebhookUrl) > 0
        /\ ~apMode
        /\ wifiStatus = "WL_CONNECTED"
        /\ bmsDataValid
  /\ (ev.op \in {"haSend", "apiHaTest"}
        /\ (Len(haWebhookUrl) = 0 \/ apMode \/ wifiStatus # "WL_CONNECTED" \/ ~bmsDataValid))
       => ev.posts = 0

\* the manual test posts although the feature is disabled
C1_Witness ==
  ev.op = "apiHaTest" /\ ev.posts = 1 /\ ~haEnabled /\ bmsDataValid

\* C2: after a poll the validity flag is true if and only if the reading has
\* a pack voltage within [10.0 V, 60.0 V], a state of charge within [0, 100],
\* at least one cell voltage, and every cell voltage within [2.0 V, 4.0 V],
\* all bounds inclusive; so a pack voltage out of range or an empty cell
\* vector gives invalid whatever the other fields are.
C2_ValidIffAllFourRules ==
  pc = "polled" =>
    /\ bmsDataValid <=>
          /\ bmsData.totalVoltage >= 10000 /\ bmsData.totalVoltage <= 60000
          /\ bmsData.soc >= 0 /\ bmsData.soc <= 100
          /\ Len(bmsData.cellVoltages) >= 1
          /\ \A i \in 1..Len(bmsData.cellVoltages) :
                bmsData.cellVoltages[i] >= 2000 /\ bmsData.cellVoltages[i] <= 4000
    /\ (bmsData.totalVoltage < 10000 \/ bmsData.totalVoltage > 60000
         \/ bmsData.cellVoltages = <<>>) => ~bmsDataValid

\* a reading on all the inclusive bounds is classified valid
C2_Witness ==
  /\ pc = "polled" /\ bmsDataValid
  /\ bmsData.totalVoltage = 60000 /\ bmsData.soc = 100
  /\ bmsData.cellVoltages = <<2000, 4000>>

\* C3: a poll reports "not plausible" exactly when the validity flag goes
\* from true to false at that poll and "now plausible" exactly when it goes
\* from false to true, each once; a poll that leaves the flag as it was
\* reports neither, and no step other than a poll reports or changes a
\* validity transition except a restart, which clears the flag silently.
C3_TransitionReportedOnce ==
  [][ /\ ev'.polls = 1 =>
           /\ LoggedNext(LogInvalid) <=> (bmsDataValid /\ ~bmsDataValid')
           /\ LoggedNext(LogValid) <=> (~bmsDataValid /\ bmsDataValid')
           /\ Cardinality({i \in 1..Len(ev'.log) : ev'.log[i] \in {LogInvalid, LogValid}}) <= 1
      /\ ev'.polls = 0 =>
           /\ ~LoggedNext(LogInvalid) /\ ~LoggedNext(LogValid)
           /\ bmsDataValid' = bmsDataValid \/ (ev'.restart /\ ~bmsDataValid')
    ]_vars

\* a poll that took the flag from true to false and said so
C3_Witness ==
  ev.polls = 1 /\ ev.op = "bmsPoll" /\ ~bmsDataValid /\ Logged(LogInvalid)

\* C4: an enable request that arrives while a connection is pending or
\* established leaves the connection flags, the snapshot and the timers as
\* they are, arms nothing and calls neither connect nor disconnect (and, the
\* feature being enabled already, leaves the configuration as it is); no
\* request handler connects; the tick that finds the pending connection of
\* an enabled, disconnected peripheral with a well-formed MAC makes exactly
\* one attempt and clears the flag, however many requests preceded it.
C4_RequestConnectIdempotent ==
  [][ /\ (ev'.op = "apiBluetooth" /\ bluetoothEnabled' /\ (bmsConnected \/ bmsConnectPending))
           => /\ UNCHANGED bmsVars
              /\ ev'.bleConnects = 0 /\ ev'.bleDisconnects = 0
              /\ ~LoggedNext(LogConnectRequested)
              /\ bluetoothEnabled => UNCHANGED cfgVars
      /\ ev'.op = "apiBluetooth" => ev'.bleConnects = 0
      /\ ev'.bleConnects \in {0, 1}
      /\ (pc = "bmsConnect" /\ bmsConnectPending /\ bluetoothEnabled /\ ~bmsConnected
            /\ Len(bmsMac) = MacLength)
           => ev'.bleConnects = 1 /\ ~bmsConnectPending'
    ]_vars

\* an enable request handled while a connection was pending: nothing armed
C4_Witness ==
  /\ ev.op = "apiBluetooth" /\ bluetoothEnabled /\ bmsConnectPending /\ ~bmsConnected
  /\ ~Logged(LogConnectRequested)

\* C5: setup() without a stored SSID ends in AP mode and never calls
\* WiFi.begin; with stored credentials it calls WiFi.begin once and ends
\* either connected in station mode (not AP, not reconnecting), when the
\* link came up within the 30 s timeout, or in AP mode after the whole timeout.
C5_Bootstrap ==
  ev.op = "setup" =>
    IF PrefGet(nvsWifi, "ssid", "") = ""
    THEN apMode /\ ev.wifiBegins = 0 /\ wifiStatus # "WL_CONNECTED" /\ now = SetupDelay
    ELSE /\ ev.wifiBegins = 1
         /\ \/ /\ wifiStatus = "WL_CONNECTED" /\ ~apMode /\ ~wifiReconnecting
               /\ now < SetupDelay + WIFI_TIMEOUT_MS
            \/ /\ wifiStatus # "WL_CONNECTED" /\ apMode
               /\ now = SetupDelay + WIFI_TIMEOUT_MS

\* setup() with stored credentials and a reachable network: station mode
C5_Witness ==
  /\ ev.op = "setup" /\ PrefGet(nvsWifi, "ssid", "") = "home" /\ ev.wifiBegins = 1
  /\ wifiStatus = "WL_CONNECTED" /\ ~apMode

\* C6: the delivery interval is within [10, 3600] and the polling interval
\* within [5, 300], in RAM and in NVS, in every state; a settings request
\* stores the lower bound for a requested value below it (0 included), the
\* upper bound for one above it and the requested value otherwise.
C6_IntervalsClamped ==
  LET Stored(arg, lo, hi) == IF arg < lo THEN lo ELSE IF arg > hi THEN hi ELSE arg
      nvsHa  == PrefGet(nvsSettings, "haInterval", 60)
      nvsBms == PrefGet(nvsSettings, "bmsInterval", 20)
  IN  /\ haInterval >= 10 /\ haInterval <= 3600
      /\ bmsInterval >= 5 /\ bmsInterval <= 300
      /\ nvsHa >= 10 /\ nvsHa <= 3600
      /\ nvsBms >= 5 /\ nvsBms <= 300
      /\ ev.op = "apiHaSettings" =>
            haInterval = Stored(ev.arg, 10, 3600) /\ nvsHa = Stored(ev.arg, 10, 3600)
      /\ ev.op = "apiBmsSettings" =>
            /\ nvsBms = Stored(ev.arg, 5, 300)
            /\ ~ev.restart => bmsInterval = Stored(ev.arg, 5, 300)

\* a requested delivery interval of 5 s stored as 10 s
C6_Witness ==
  /\ ev.op = "apiHaSettings" /\ ev.arg = 5
  /\ haInterval = 10 /\ nvsSettings["haInterval"] = <<10>>

\* C7: saving the eight settings of any reachable configuration and loading
\* them again yields the same eight values, and after a restart setup()
\* finds in RAM, for every key that was ever saved, the value NVS holds.
C7_SaveLoadRoundTrip ==
  /\ loadSettings(saveSettings(nvsSettings, timezone, bmsInterval, bluetoothEnabled, bmsMac,
                               haWebhookUrl, haInterval, haEnabled, serialOutputEnabled))
       = [timezone |-> timezone, bmsInterval |-> bmsInterval,
          bluetoothEnabled |-> bluetoothEnabled, bmsMac |-> bmsMac,
          haWebhookUrl |-> haWebhookUrl, haInterval |-> haInterval,
          haEnabled |-> haEnabled, serialOutputEnabled |-> serialOutputEnabled]
  /\ ev.op = "setup" =>
       /\ nvsSettings["timezone"] \in {<<>>, <<timezone>>}
       /\ nvsSettings["bmsInterval"] \in {<<>>, <<bmsInterval>>}
       /\ nvsSettings["btEnabled"] \in {<<>>, <<bluetoothEnabled>>}
       /\ nvsSettings["bmsMac"] \in {<<>>, <<bmsMac>>}
       /\ nvsSettings["haWebhook"] \in {<<>>, <<haWebhookUrl>>}
       /\ nvsSettings["haInterval"] \in {<<>>, <<haInterval>>}
       /\ nvsSettings["haEnabled"] \in {<<>>, <<haEnabled>>}
       /\ nvsSettings["serialOut"] \in {<<>>, <<serialOutputEnabled>>}

\* a restart with every setting away from its default: all eight come back
C7_Witness ==
  /\ ev.op = "setup" /\ nvsSettings["timezone"] = <<"UTC0">>
  /\ timezone = "UTC0" /\ bmsInterval = 300 /\ ~bluetoothEnabled /\ bmsMac = BmsMacA
  /\ haWebhookUrl = WebhookA /\ haInterval = 3600 /\ haEnabled /\ ~serialOutputEnabled

\* sendToHomeAssistant() was called by this step
Dispatched ==
  \/ pc = "haSend" /\ ev'.op = "haSend"
  \/ ev'.op = "apiHaTest" /\ ~apMode /\ Len(haWebhookUrl) > 0

\* C8 as stated: every call of the webhook that issues no POST records the
\* time of the attempt, a failure status and a non-empty reason.
C8_EveryShortCircuitRecorded ==
  [][ (Dispatched /\ ev'.posts = 0)
        => /\ lastHaTime' = getCurrentTimeString(lastSyncTime, now)
           /\ lastHaHttpCode' = 0 - 1
           /\ lastHaResponse' # ""
    ]_vars

\* C8, amended: a call of the webhook that issues no POST because the WLAN
\* link is down or the validity flag is false records the time, status -1
\* and the reason ("Kein WLAN", checked first, or "BMS-Daten nicht
\* plausibel"); a call that issues none because the feature is disabled,
\* the URL is empty or the device is in AP mode leaves the record untouched.
C8_ShortCircuitRecordedForLinkAndValidity ==
  [][ (Dispatched /\ ev'.posts = 0)
        => IF (~haEnabled /\ ev'.op # "apiHaTest") \/ Len(haWebhookUrl) = 0 \/ apMode
           THEN UNCHANGED <<lastHaTime, lastHaHttpCode, lastHaResponse>>
           ELSE /\ wifiStatus # "WL_CONNECTED" \/ ~bmsDataValid
                /\ lastHaTime' = getCurrentTimeString(lastSyncTime, now)
                /\ lastHaHttpCode' = 0 - 1
                /\ lastHaResponse' = IF wifiStatus # "WL_CONNECTED"
                                      THEN "Kein WLAN"
                                      ELSE "BMS-Daten nicht plausibel"
    ]_vars

\* the periodic webhook skipped for implausible data, with the reason on record
C8_Witness ==
  /\ ev.op = "haSend" /\ ev.posts = 0 /\ ~bmsDataValid /\ wifiStatus = "WL_CONNECTED"
  /\ lastHaHttpCode = 0 - 1 /\ lastHaResponse = "BMS-Daten nicht plausibel"

\* C9 as stated: whenever a connection is pending, and whenever one is
\* armed, the configured MAC has exactly 17 characters.
C9_PendingImpliesWellFormedMac ==
  /\ bmsConnectPending => Len(bmsMac) = MacLength
  /\ (Logged(LogConnectRequested) \/ Logged(LogReconnectPlanned)) => Len(bmsMac) = MacLength

\* C9, amended: a connection is never attempted unless the configured MAC
\* has exactly 17 characters, and a pending connection armed while the MAC
\* is malformed does not survive the next connect section of loop(): it is
\* discarded there without an attempt.
C9_NoAttemptWithoutWellFormedMac ==
  /\ ev.bleConnects = 1 => Len(bmsMac) = MacLength
  /\ (pc \in {"bmsPoll", "bmsReconnect"} /\ bmsConnectPending) => Len(bmsMac) = MacLength
  /\ ev.op = "bmsDiscard" => ev.bleConnects = 0 /\ ~bmsConnectPending /\ Len(bmsMac) # MacLength

\* a pending connection with no MAC configured, discarded by loop()
C9_Witness ==
  ev.op = "bmsDiscard" /\ pc = "bmsPoll" /\ bmsMac = "" /\ ~bmsConnectPending /\ ~bmsConnected

\* C10 as stated: the connected and the pending flag are never both set, a
\* connection attempt is started only while a connection is pending and the
\* peripheral is not connected, and the attempt clears the pending flag.
C10_AttemptOnlyWhenPending ==
  [][ /\ ~(bmsConnected' /\ bmsConnectPending')
      /\ ev'.bleConnects \in {0, 1}
      /\ ev'.bleConnects = 1 => bmsConnectPending /\ ~bmsConnected /\ ~bmsConnectPending'
    ]_vars

\* C10, amended: the connected and the pending flag are never both set; an
\* attempt made by loop() is started only while a connection is pending and
\* the peripheral is not connected, and it clears the pending flag, so each
\* armed pending connection leads to at most one attempt; the only other
\* attempt is the one setup() makes at boot, with neither flag set.
C10_LoopAttemptOnlyWhenPending ==
  [][ /\ ~(bmsConnected' /\ bmsConnectPending')
      /\ ev'.bleConnects \in {0, 1}
      /\ ev'.bleConnects = 1 =>
            /\ ~bmsConnected /\ ~bmsConnectPending'
            /\ ev'.op \in {"bmsConnect", "setup"}
            /\ ev'.op = "bmsConnect" => bmsConnectPending
            /\ ev'.op = "setup" => ~bmsConnectPending /\ pc = "boot"
    ]_vars

\* an attempt made by loop() for a pending connection, which succeeded
C10_Witness ==
  ev.op = "bmsConnect" /\ ev.bleConnects = 1 /\ bmsConnected /\ ~bmsConnectPending

\* the steps that serve a request
HandlerOps == {"apiBluetooth", "apiSerial", "apiBmsSettings", "apiTimezone", "apiHaSettings",
               "apiHaTest", "apiResetWifi", "handleConnect"}

\* C11: no request handler calls connect: the enable request that finds
\* the peripheral neither connected nor pending only sets the pending flag
\* and hands over to the rest of loop(); an attempt is made only by the
\* connect section of loop() (or by setup() at boot), and the connect
\* section that finds the flag set for an enabled peripheral with a
\* well-formed MAC makes the attempt.
C11_NoAttemptInsideHandler ==
  [][ /\ ev'.op \in HandlerOps => (ev'.bleConnects = 0 /\ (bmsConnected' => bmsConnected))
      /\ ev'.bleConnects = 1 => (pc = "bmsConnect" \/ pc = "boot")
      /\ (ev'.op = "apiBluetooth" /\ LoggedNext(LogConnectRequested))
           => /\ ~bmsConnectPending /\ bmsConnectPending'
              /\ ~bmsConnected' /\ pc = "handle" /\ pc' = "wifi"
      /\ (pc = "bmsConnect" /\ bmsConnectPending /\ bluetoothEnabled /\ ~bmsConnected
            /\ Len(bmsMac) = MacLength)
           => ev'.op = "bmsConnect" /\ ev'.bleConnects = 1
    ]_vars

\* the enable request has armed the connection and returned without connecting
C11_Witness ==
  /\ ev.op = "apiBluetooth" /\ Logged(LogConnectRequested) /\ pc = "wifi"
  /\ bmsConnectPending /\ ~bmsConnected /\ ev.bleConnects = 0 /\ Len(bmsMac) = MacLength

\* C12: while the peripheral feature is disabled the peripheral is not
\* connected, and no step connects, polls or arms a reconnect: a disable
\* request leaves the peripheral disconnected at once, and neither a
\* pending connection nor an elapsed backoff makes loop() act until the
\* feature is enabled again.
C12_DisableHonoured ==
  /\ ~bluetoothEnabled => ~bmsConnected
  /\ (ev.bleConnects = 1 \/ ev.polls = 1 \/ Logged(LogReconnectPlanned)) => bluetoothEnabled
  /\ (ev.op = "apiBluetooth" /\ ~bluetoothEnabled) => (ev.bleConnects = 0 /\ ev.polls = 0)

\* disabled with a connection left pending and the backoff elapsed: the
\* connect section has run and has not connected
C12_Witness ==
  /\ ~bluetoothEnabled /\ bmsConnectPending /\ Len(bmsMac) = MacLength
  /\ pc = "bmsPoll" /\ ev.op = "bmsConnect" /\ ev.bleConnects = 0
  /\ currentMillis - lastBmsUpdate >= BmsReconnectInterval

\* C13: a connect request whose link comes up stores exactly the SSID and
\* password it was given and leaves the device in station mode with the
\* link up (AP mode cleared); one whose link does not come up within the
\* 15 s wait leaves the device in AP mode, answers "Verbindung
\* fehlgeschlagen", does not restart and leaves the stored credentials as
\* they were; either way WiFi.begin is called once.
C13_HandleConnect ==
  [][ ev'.op = "handleConnect" =>
        /\ ev'.wifiBegins = 1 /\ ~ev'.restart /\ pc' = "wifi"
        /\ \/ /\ ev'.reply = "success"
              /\ nvsWifi'["ssid"] = <<ev'.arg>> /\ nvsWifi'["password"] = <<"secret">>
              /\ ~apMode' /\ wifiStatus' = "WL_CONNECTED"
              /\ now' = now
           \/ /\ ev'.reply = "Verbindung fehlgeschlagen"
              /\ nvsWifi' = nvsWifi
              /\ apMode' /\ wifiStatus' # "WL_CONNECTED"
              /\ now' = now + ConnectWait
    ]_vars

\* a failed connect request on a device that had credentials stored
C13_Witness ==
  /\ ev.op = "handleConnect" /\ ev.reply = "Verbindung fehlgeschlagen"
  /\ ev.arg = "guest" /\ apMode /\ nvsWifi["ssid"] = <<"home">> /\ pc = "wifi"

\* C14: the WLAN section of loop() calls WiFi.reconnect only when the
\* device is not in AP mode, no reconnect is running, the link is down and
\* at least 30 s have passed since the last periodic check; it then sets
\* the reconnecting flag and records the time as check time and as start
\* time; so at least 30 s lie between two calls of WiFi.reconnect.
C14_ReconnectOnlyWhenDue ==
  [][ /\ ev'.wifiReconnects \in {0, 1}
      /\ ev'.wifiReconnects = 1 =>
            /\ ev'.op = "wifiTick"
            /\ ~apMode /\ ~wifiReconnecting /\ wifiStatus # "WL_CONNECTED"
            /\ currentMillis - lastWifiCheck >= 30000
            /\ currentMillis - wifiReconnectStart >= 30000
            /\ wifiReconnecting' /\ ~apMode'
            /\ wifiReconnectStart' = currentMillis /\ lastWifiCheck' = currentMillis
      /\ wifiReconnectStart' # wifiReconnectStart => (ev'.wifiReconnects = 1 \/ ev'.restart)
      /\ (~wifiReconnecting /\ wifiReconnecting') => ev'.wifiReconnects = 1
    ]_vars

\* a second reconnect, after the first one timed out
C14_Witness ==
  /\ ev.wifiReconnects = 1 /\ wifiReconnecting /\ wifiReconnectStart = currentMillis
  /\ currentMillis >= 60000 /\ currentMillis < ntpSyncInterval

\* C15: the reconnecting flag does not outlive its episode: whenever the
\* WLAN section of a loop() iteration has run and the flag is (still) set,
\* the link is down and no more than 15 s have passed since the recorded
\* start (a tick that finds the link up, or the 15 s exceeded, has cleared
\* the flag).
C15_ReconnectingAlwaysLeft ==
  (pc = "bmsConnect" /\ wifiReconnecting)
    => (wifiStatus # "WL_CONNECTED" /\ currentMillis - wifiReconnectStart <= 15000)

\* C16: in station mode every run of the WLAN section that finds the link
\* down keeps the retries going: with no reconnect running and the 30 s
\* check interval elapsed it calls WiFi.reconnect; with a reconnect running
\* for more than 15 s it clears the flag, so that the next periodic check
\* issues another one; the check time never lies in the future, so the
\* interval does elapse. The WLAN section never switches to AP mode and
\* never restarts the device.
C16_LinkLossRetried ==
  [][ ev'.op = "wifiTick" =>
        /\ apMode' = apMode /\ ~ev'.restart /\ wifiStatus' = wifiStatus
        /\ lastWifiCheck' <= currentMillis /\ wifiReconnectStart' <= lastWifiCheck'
        /\ (~apMode /\ wifiStatus # "WL_CONNECTED") =>
              /\ (~wifiReconnecting /\ currentMillis - lastWifiCheck >= 30000)
                    => (ev'.wifiReconnects = 1 /\ wifiReconnecting')
              /\ (wifiReconnecting /\ currentMillis - wifiReconnectStart > 15000)
                    => ~wifiReconnecting'
              /\ (wifiReconnecting /\ currentMillis - wifiReconnectStart <= 15000)
                    => wifiReconnecting'
    ]_vars

\* a reconnect has timed out with the link still down, the flag is cleared
\* and the next check is due; the device is still in station mode
C16_Witness ==
  /\ pc = "bmsConnect" /\ ev.op = "wifiTick" /\ ~apMode /\ wifiStatus # "WL_CONNECTED"
  /\ ~wifiReconnecting /\ wifiReconnectStart > 0
  /\ currentMillis - wifiReconnectStart > 15000
  /\ currentMillis - lastWifiCheck >= 30000

\* C17: a lost link to the BMS is noticed: a poll made while the link is
\* lost leaves the Connected state (so that the reconnect timer, which
\* requires not Connected, can arm a new attempt).
C17_LinkLossLeavesConnected ==
  [][ (ev'.polls = 1 /\ ~bmsLinkUp') => ~bmsConnected' ]_vars

\* C18: the reconnect section of loop(), run with the peripheral enabled,
\* not connected and nothing pending, sets the pending flag (and logs
\* "[BLE] Plane BMS Reconnect...") exactly when at least 30 s have passed
\* since bmsClient.connect() was last called (since the end of setup() if
\* it was not called since boot); it sets the flag in no other situation;
\* every attempt records its time, and the recorded time changes only by
\* an attempt or a restart, so the attempt that follows an arming by the
\* timer is at least 30 s after the attempt before it.
C18_BackoffArmsAfter30s ==
  [][ LET since == IF lastBmsAttempt = NoAttempt THEN lastBmsUpdate ELSE lastBmsAttempt
          idle  == bluetoothEnabled /\ ~bmsConnected /\ ~bmsConnectPending
      IN  /\ (pc = "bmsReconnect" /\ idle)
                => /\ bmsConnectPending' <=> (currentMillis - since >= 30000)
                   /\ LoggedNext(LogReconnectPlanned) <=> bmsConnectPending'
          /\ LoggedNext(LogReconnectPlanned)
                => (pc = "bmsReconnect" /\ idle /\ currentMillis - since >= 30000)
          /\ (pc = "bmsReconnect" /\ ~idle) => UNCHANGED bmsConnectPending
          /\ (pc = "bmsConnect" /\ ev'.bleConnects = 1)
                => (lastBmsAttempt' = currentMillis /\ lastBmsUpdate' = currentMillis)
          /\ lastBmsAttempt' # lastBmsAttempt => (ev'.bleConnects = 1 \/ ev'.restart)
    ]_vars

\* the timer has armed a connection 30 s or more after a failed attempt
C18_Witness ==
  /\ pc = "ntp" /\ Logged(LogReconnectPlanned) /\ bmsConnectPending
  /\ lastBmsAttempt # NoAttempt /\ currentMillis - lastBmsAttempt >= 30000
  /\ Len(bmsMac) = MacLength

\* C19: the connect section of loop() that finds a connection pending, the
\* peripheral enabled and not connected and a 17-character MAC calls
\* bmsClient.connect() once and clears the pending flag; if the call
\* succeeds the peripheral is connected and polled once in that step, if it
\* fails it is not connected and not polled; the poll section that follows
\* an attempt in the same iteration does not poll.
C19_OneAttemptOnePoll ==
  [][ /\ (pc = "bmsConnect" /\ bmsConnectPending /\ bluetoothEnabled /\ ~bmsConnected
            /\ Len(bmsMac) = MacLength)
           => /\ ev'.bleConnects = 1 /\ ~bmsConnectPending'
              /\ ev'.polls = (IF bmsConnected' THEN 1 ELSE 0)
              /\ bmsConnected' = bmsLinkUp'
      /\ (pc = "bmsPoll" /\ ev.bleConnects = 1) => (ev'.polls = 0 /\ UNCHANGED bmsVars)
      /\ ev'.bleConnects \in {0, 1} /\ ev'.polls \in {0, 1}
    ]_vars

\* after a successful attempt the poll section of the same iteration has
\* run without polling
C19_Witness ==
  /\ pc = "bmsReconnect" /\ ev.op = "bmsPoll" /\ ev.polls = 0
  /\ bmsConnected /\ lastBmsAttempt = currentMillis /\ lastBmsUpdate = currentMillis

\* C20: a manual test request leaves haEnabled as it was and changes no
\* setting and nothing in NVS; it posts at most once; in AP mode or with an
\* empty webhook URL it is rejected, posts nothing and leaves the record of
\* the last delivery alone; otherwise, with the link up and valid BMS data,
\* it posts once whether or not the feature is enabled; it never moves the
\* time of the last periodic delivery.
C20_ManualTestOverrideNotKept ==
  [][ ev'.op = "apiHaTest" =>
        /\ haEnabled' = haEnabled
        /\ UNCHANGED <<cfgVars, nvsVars, lastHaSend>>
        /\ ev'.posts \in {0, 1} /\ ~ev'.restart
        /\ (apMode \/ Len(haWebhookUrl) = 0)
              => /\ ev'.posts = 0 /\ UNCHANGED haVars
                 /\ ev'.reply \in {"Nicht im AP-Modus moeglich", "Keine Webhook URL konfiguriert"}
        /\ (~apMode /\ Len(haWebhookUrl) > 0 /\ wifiStatus = "WL_CONNECTED" /\ bmsDataValid)
              => ev'.posts = 1
    ]_vars

\* a manual test has posted although the feature is disabled, in RAM and in NVS
C20_Witness ==
  /\ ev.op = "apiHaTest" /\ ev.posts = 1 /\ pc = "wifi"
  /\ ~haEnabled /\ nvsSettings["haEnabled"] = <<FALSE>>

\* C21: loop() calls sendToHomeAssistant only when at least haInterval
\* seconds have passed since lastHaSend; every such call, whether it posts
\* and succeeds, posts and fails, or is skipped for a lost link or invalid
\* data, sets lastHaSend to the time of the iteration; and nothing else
\* moves lastHaSend. So after an attempt by loop() the next one is at least
\* the configured interval later.
C21_NoImmediateRetry ==
  [][ /\ ev'.op = "haSend"
           => /\ pc = "haSend" /\ currentMillis - lastHaSend >= haInterval * 1000
              /\ lastHaSend' = currentMillis
              /\ ev'.posts \in {0, 1}
      /\ (pc = "ha" /\ pc' = "haSend") => currentMillis - lastHaSend >= haInterval * 1000
      /\ (pc = "ha" /\ currentMillis - lastHaSend < haInterval * 1000)
           => (pc' = "idle" \/ UNCHANGED pc)
      /\ lastHaSend' # lastHaSend => (ev'.op = "haSend" \/ ev'.restart)
      /\ (pc = "idle" /\ pc' = "handle") => lastHaSend <= currentMillis'
    ]_vars

\* a failed delivery by loop(), and the webhook section of a later
\* iteration has run without sending again
C21_Witness ==
  /\ pc = "idle" /\ ev.op = "haTick" /\ lastHaHttpCode = 404
  /\ lastHaSend > 0 /\ currentMillis > lastHaSend
  /\ currentMillis - lastHaSend < haInterval * 1000
  /\ haEnabled /\ ~apMode /\ wifiStatus = "WL_CONNECTED"

\* C22: the device restarts only in a BMS settings request whose MAC has
\* 17 characters and differs from the current one (the MAC then stored), or
\* in a request to wipe the WLAN credentials; every other step, among them
\* a failed WLAN or BMS connection, a failed delivery, an invalid reading, a
\* settings request with a malformed or unchanged MAC or an out-of-range
\* interval, leaves the device running; setup() runs again only after a
\* restart.
C22_RestartOnlyByMacChangeOrWipe ==
  [][ /\ ev'.restart
           => \/ ev'.op = "apiResetWifi"
              \/ /\ ev'.op = "apiBmsSettings"
                 /\ nvsSettings'["bmsMac"] # <<>>
                 /\ Len(nvsSettings'["bmsMac"][1]) = 17
                 /\ nvsSettings'["bmsMac"][1] # bmsMac
      /\ (ev'.op = "apiBmsSettings" /\ ~ev'.restart)
           => (bmsMac' = bmsMac /\ nvsSettings'["bmsMac"] = <<bmsMac>> /\ pc' = "wifi")
      /\ ev'.op = "apiResetWifi" => ev'.restart
      /\ (pc # "boot" /\ pc' = "boot") <=> ev'.restart
    ]_vars

\* restarted by a request that changed the MAC
C22_Witness ==
  /\ pc = "boot" /\ ev.restart /\ ev.op = "apiBmsSettings"
  /\ nvsSettings["bmsMac"] = <<"C8:47:80:3F:67:7D">> /\ bmsMac = ""

\* C23: a request to wipe the WLAN credentials leaves the "wifi" namespace
\* without SSID and password, leaves the "settings" namespace as it was and
\* restarts the device; the setup() that follows calls WiFi.begin not once
\* and ends in AP mode, with the settings loaded as they were stored.
C23_WipeThenApMode ==
  [][ /\ ev'.op = "apiResetWifi"
           => /\ nvsWifi'["ssid"] = <<>> /\ nvsWifi'["password"] = <<>>
              /\ nvsSettings' = nvsSettings
              /\ ev'.restart /\ pc' = "boot"
      /\ (pc = "boot" /\ ev.op = "apiResetWifi")
           => /\ ev'.op = "setup" /\ ev'.wifiBegins = 0
              /\ apMode' /\ wifiStatus' # "WL_CONNECTED"
              /\ UNCHANGED nvsVars
              /\ bmsMac' = PrefGet(nvsSettings, "bmsMac", "")
              /\ haWebhookUrl' = PrefGet(nvsSettings, "haWebhook", "")
    ]_vars

\* a configured device that was in station mode is in AP mode after the
\* wipe and the restart, its settings still stored
C23_Witness ==
  /\ pc = "idle" /\ ev.op = "setup" /\ ev.wifiBegins = 0 /\ apMode
  /\ nvsWifi = EmptyNamespace(WifiKeys)
  /\ nvsSettings["haWebhook"] = <<WebhookA>> /\ haWebhookUrl = WebhookA
  /\ nvsSettings["bmsMac"] = <<BmsMacA>>

\* the requests that change or exercise the configuration
ConfigOps == {"apiBluetooth", "apiSerial", "apiBmsSettings", "apiTimezone", "apiHaSettings",
              "apiHaTest"}

\* the eight settings as RAM holds them
RamSettings ==
  [timezone |-> timezone, bmsInterval |-> bmsInterval,
   bluetoothEnabled |-> bluetoothEnabled, bmsMac |-> bmsMac,
   haWebhookUrl |-> haWebhookUrl, haInterval |-> haInterval,
   haEnabled |-> haEnabled, serialOutputEnabled |-> serialOutputEnabled]

\* C24: when a configuration request has been served (Bluetooth switch,
\* serial switch, BMS settings, time zone, webhook settings, manual test)
\* and the device keeps running, loading the "settings" namespace yields
\* for each of the eight settings the value RAM holds; every request but
\* the manual test has written all eight keys. A BMS settings request that
\* restarts the device has stored the clamped interval and the new MAC, and
\* every other setting as RAM held it.
C24_ConfigPersistedAtOnce ==
  [][ ev'.op \in ConfigOps =>
        IF ev'.restart
        THEN LET ld == loadSettings(nvsSettings')
             IN  /\ ev'.op = "apiBmsSettings"
                 /\ ld.bmsInterval = ClampInterval(ev'.arg, 5, 300)
                 /\ Len(ld.bmsMac) = MacLength /\ ld.bmsMac # bmsMac
                 /\ [ld EXCEPT !.bmsInterval = bmsInterval, !.bmsMac = bmsMac] = RamSettings
        ELSE /\ loadSettings(nvsSettings') = RamSettings'
             /\ ev'.op # "apiHaTest" => \A k \in SettingsKeys : nvsSettings'[k] # <<>>
             /\ ev'.op = "apiHaTest" => UNCHANGED <<cfgVars, nvsSettings>>
    ]_vars

\* the serial switch of a fresh device turned off and stored, the other
\* seven settings stored with it
C24_Witness ==
  /\ ev.op = "apiSerial" /\ pc = "wifi" /\ ~serialOutputEnabled
  /\ nvsSettings["serialOut"] = <<FALSE>> /\ nvsSettings["haInterval"] = <<60>>
  /\ nvsSettings["bmsMac"] = <<"">>

\* the section of loop() that follows each section (a request that
\* restarts the device is followed by setup())
NextSection(p) ==
  CASE p = "boot"         -> {"idle"}
    [] p = "idle"         -> {"handle"}
    [] p = "handle"       -> {"wifi", "boot"}
    [] p = "wifi"         -> {"bmsConnect"}
    [] p = "bmsConnect"   -> {"bmsPoll"}
    [] p = "bmsPoll"      -> {"bmsReconnect"}
    [] p = "bmsReconnect" -> {"ntp"}
    [] p = "ntp"          -> {"ha"}
    [] p = "ha"           -> {"haSend", "idle"}
    [] p = "haSend"       -> {"idle"}
    [] OTHER              -> {}

\* C25: the sections of loop() run in the order request handler, WLAN,
\* BMS connect, BMS poll, BMS reconnect timer, NTP, webhook; a poll is made
\* only in setup(), the connect section or the poll section and a POST only
\* in a request or the webhook section; a poll that is due is made in the
\* poll section and a delivery that is due is started in the webhook
\* section; the sections between the poll section and the end of the
\* iteration leave bmsData and bmsDataValid alone, so the delivery of an
\* iteration works on what the poll of that iteration left: it posts only
\* with bmsDataValid set, and with the link up and the flag cleared it
\* records "BMS-Daten nicht plausibel".
C25_FixedOrder ==
  [][ /\ pc' # pc => pc' \in NextSection(pc)
      /\ ev'.polls = 1 => pc \in {"boot", "bmsConnect", "bmsPoll"}
      /\ ev'.posts = 1 => pc \in {"handle", "haSend"}
      /\ (pc = "bmsPoll" /\ bluetoothEnabled /\ bmsConnected
            /\ currentMillis - lastBmsUpdate >= bmsInterval * 1000)
           => (ev'.polls = 1 /\ lastBmsUpdate' = currentMillis)
      /\ (pc = "ha" /\ pc' # pc /\ haEnabled /\ ~apMode /\ wifiStatus = "WL_CONNECTED"
            /\ currentMillis - lastHaSend >= haInterval * 1000)
           => pc' = "haSend"
      /\ pc \in {"bmsReconnect", "ntp", "ha", "haSend"} => UNCHANGED <<bmsData, bmsDataValid>>
      /\ ev'.op = "haSend"
           => /\ ev'.posts = 1 => bmsDataValid
              /\ (~bmsDataValid /\ wifiStatus = "WL_CONNECTED")
                   => (ev'.posts = 0 /\ lastHaResponse' = "BMS-Daten nicht plausibel")
    ]_vars

\* an iteration whose periodic poll read implausible data and whose
\* delivery, due in the same iteration, was withheld for it
C25_Witness ==
  /\ pc = "idle" /\ ev.op = "haSend" /\ ev.posts = 0
  /\ lastBmsUpdate = currentMillis /\ lastBmsAttempt # currentMillis
  /\ lastHaSend = currentMillis /\ currentMillis > 0
  /\ ~bmsDataValid /\ bmsData = Reading(26400, 85, <<3300, 4100>>)
  /\ lastHaResponse = "BMS-Daten nicht plausibel"

\* C26: no section of loop() waits: time passes inside a step only in
\* setup() and in a connect request (and between two iterations of loop());
\* the WLAN section, the BMS sections, the NTP section and the webhook
\* section return without the clock having moved.
C26_LoopNeverBlocks ==
  [][ (now' # now /\ pc # "idle")
        => (ev'.op \in {"setup", "handleConnect"} \/ ev'.restart) ]_vars

(***************************************************************************)
(* C27: only readings classified valid update the snapshot: a poll whose   *)
(* reading is classified implausible leaves bmsData, which the webhook and *)
(* /api/data read, as it was before the poll.                              *)
(***************************************************************************)
C27_InvalidPollKeepsSnapshot ==
  [][ (ev'.polls = 1 /\ ~bmsDataValid') => bmsData' = bmsData ]_vars

(***************************************************************************)
(* C28 as stated: in a state reached by a poll (so a poll has been         *)
(* performed since startup) the cell-voltage sequence of the snapshot is   *)
(* what the BMS reported at that poll and is not empty.                    *)
(***************************************************************************)
C28_EmptyOnlyBeforeFirstPoll ==
  ev.polls = 1 => /\ bmsData.cellVoltages = ev.arg.cellVoltages
                  /\ bmsData.cellVoltages # <<>>

(***************************************************************************)
(* C28 (amended): the cell-voltage sequence of the snapshot mirrors the    *)
(* BMS. A poll sets it to the sequence reported at that poll, which may be *)
(* empty; a step without a poll leaves it alone, except that a restart     *)
(* empties it. It is never empty while the reading counts as plausible.    *)
(***************************************************************************)
C28_CellsMirrorLastPoll ==
  [][ /\ ev'.polls = 1 => bmsData'.cellVoltages = ev'.arg.cellVoltages
      /\ (ev'.polls = 0 /\ ~ev'.restart) => bmsData'.cellVoltages = bmsData.cellVoltages
      /\ ev'.restart => bmsData'.cellVoltages = <<>>
      /\ bmsDataValid' => bmsData'.cellVoltages # <<>> ]_vars

\* a poll after a plausible reading reports no cells, and the snapshot follows
C28_Witness ==
  /\ ev.op = "bmsPoll" /\ ev.polls = 1 /\ Logged(LogInvalid)
  /\ ev.arg.cellVoltages = <<>> /\ bmsData.cellVoltages = <<>>

(***************************************************************************)
(* The shared records as the firmware holds them                           *)
(***************************************************************************)
ReadingSnapshot == bmsData
ValidityFlag    == bmsDataValid
DeliveryRecord  == <<lastHaSend, lastHaTime, lastHaHttpCode, lastHaResponse>>
NetworkState    == <<apMode, wifiReconnecting, wifiReconnectStart, lastWifiCheck, wifiStatus>>
PeripheralState == <<bmsConnected, bmsConnectPending>>

DispatchOps   == {"haSend", "apiHaTest"}
NetworkOps    == {"setup", "handleConnect", "wifiTick"}
PeripheralOps == {"apiBluetooth", "bmsConnect", "bmsDiscard", "bmsPoll", "bmsReconnect"}

(***************************************************************************)
(* C29 as stated: each shared record has one mutating component. The       *)
(* snapshot and the validity flag change only in a poll, the delivery      *)
(* record only in a dispatch, the network state only in bootstrap, a       *)
(* foreground connect or the network tick (or when the radio itself gains  *)
(* or loses the link), the peripheral state only in an enable/disable      *)
(* request or the peripheral tick; a dispatch leaves snapshot, flag,       *)
(* network state and peripheral state alone. A restart resets all of them. *)
(***************************************************************************)
C29_OneMutatorPerRecord ==
  [][ ~ev'.restart =>
        /\ (ReadingSnapshot' # ReadingSnapshot \/ ValidityFlag' # ValidityFlag) => ev'.polls = 1
        /\ DeliveryRecord' # DeliveryRecord => ev'.op \in DispatchOps
        /\ NetworkState' # NetworkState => ev'.op \in NetworkOps \cup {"radio"}
        /\ PeripheralState' # PeripheralState => ev'.op \in PeripheralOps
        /\ ev'.op \in DispatchOps =>
              UNCHANGED <<ReadingSnapshot, ValidityFlag, NetworkState, PeripheralState>> ]_vars

(***************************************************************************)
(* C29 (amended): as above, with bootstrap as one more writer of the       *)
(* peripheral state: setup() connects to the BMS itself and performs the   *)
(* first poll. The polling timestamp is written by setup and by the        *)
(* connect and poll sections of the peripheral tick only.                  *)
(***************************************************************************)
C29_OneMutatorPerRecordWithBootstrap ==
  [][ ~ev'.restart =>
        /\ (ReadingSnapshot' # ReadingSnapshot \/ ValidityFlag' # ValidityFlag)
              => (ev'.polls = 1 /\ ev'.op \in {"setup", "bmsConnect", "bmsPoll"})
        /\ DeliveryRecord' # DeliveryRecord => ev'.op \in DispatchOps
        /\ NetworkState' # NetworkState => ev'.op \in NetworkOps \cup {"radio"}
        /\ PeripheralState' # PeripheralState => ev'.op \in PeripheralOps \cup {"setup"}
        /\ lastBmsUpdate' # lastBmsUpdate => ev'.op \in {"setup", "bmsConnect", "bmsPoll"}
        /\ ev'.op \in DispatchOps =>
              UNCHANGED <<ReadingSnapshot, ValidityFlag, NetworkState, PeripheralState,
                          lastBmsUpdate>> ]_vars

\* a dispatch that posted a plausible reading of a connected BMS over the WLAN
C29_Witness ==
  /\ ev.op = "haSend" /\ ev.posts = 1 /\ lastHaHttpCode = 200
  /\ ValidityFlag /\ bmsConnected /\ ~apMode /\ ReadingSnapshot = GoodReading

(***************************************************************************)
(* C30: while the soft AP is up the WLAN section of loop() does nothing:   *)
(* it issues no reconnect and leaves wifiReconnecting, lastWifiCheck and   *)
(* wifiReconnectStart as they are. AP mode ends only with a /connect       *)
(* request that got a link, or with a restart; no section of loop() ends   *)
(* it.                                                                     *)
(***************************************************************************)
C30_ApModeTickIdle ==
  [][ /\ (apMode /\ ev'.op = "wifiTick")
          => /\ ev'.wifiReconnects = 0 /\ ev'.wifiBegins = 0
             /\ UNCHANGED <<wifiReconnecting, lastWifiCheck, wifiReconnectStart, apMode, wifiStatus>>
      /\ (apMode /\ ~apMode')
          => \/ ev'.restart
             \/ /\ ev'.op = "handleConnect" /\ ev'.reply = "success"
                /\ wifiStatus' = "WL_CONNECTED"
      /\ pc \notin {"boot", "handle"} => apMode' = apMode ]_vars

\* the WLAN section has run in AP mode at a time when, in station mode, the
\* periodic check would have been due and would have found the link down
C30_Witness ==
  /\ ev.op = "wifiTick" /\ pc = "bmsConnect" /\ apMode
  /\ WifiCheckDue /\ wifiStatus # "WL_CONNECTED" /\ ~wifiReconnecting
  /\ ev.wifiReconnects = 0

(***************************************************************************)
(* C31: between operations bmsDataValid is isBmsDataValid() of the         *)
(* snapshot as it stands. It is false at power-on, every poll recomputes   *)
(* it from the reading of that poll, and nothing but a poll (or a restart, *)
(* which clears it) changes it.                                            *)
(***************************************************************************)
C31_FlagIsClassifyOfSnapshot ==
  [][ /\ ValidityFlag = isBmsDataValid(ReadingSnapshot)
      /\ ValidityFlag' = isBmsDataValid(ReadingSnapshot')
      /\ ev'.polls = 1 => ValidityFlag' = isBmsDataValid(ev'.arg)
      /\ ev'.restart => ~ValidityFlag'
      /\ ValidityFlag' # ValidityFlag => (ev'.polls = 1 \/ ev'.restart) ]_vars

\* the poll after a connect found the first plausible reading
C31_Witness ==
  /\ ev.op = "bmsConnect" /\ ev.polls = 1 /\ Logged(LogValid)
  /\ ValidityFlag /\ ReadingSnapshot = GoodReading

(***************************************************************************)
(* C32: the network state is exactly one of ApMode, StaConnected,          *)
(* StaReconnecting, StaDisconnected: apMode and wifiReconnecting are never *)
(* both set, however /connect requests interleave with loop() iterations.  *)
(***************************************************************************)
C32_ApModeExcludesReconnecting == ~(apMode /\ wifiReconnecting)

(***************************************************************************)
(* C33: when a disable request has been served the peripheral is           *)
(* disconnected and no connection is left pending, whether the request     *)
(* found it connected, pending or disconnected.                            *)
(***************************************************************************)
C33_DisableClearsPending ==
  [][ (ev'.op = "apiBluetooth" /\ ~bluetoothEnabled')
        => (~bmsConnected' /\ ~bmsConnectPending') ]_vars

(***************************************************************************)
(* C34: a delivery counts as an error exactly when its HTTP result is not  *)
(* a 2xx status: every POST answered with a status in 200..299 is reported *)
(* as success to the caller (the return value, the answer of the manual    *)
(* test) and by cloudOk of the status summary, every other as failure.     *)
(***************************************************************************)
C34_SuccessIffTwoHundreds ==
  [][ ev'.posts = 1 =>
        LET ok == ev'.arg.code >= 200 /\ ev'.arg.code <= 299
        IN  /\ (ev'.reply \in {"true", "success"}) <=> ok
            /\ cloudOk' <=> (haEnabled' /\ ok) ]_vars

(***************************************************************************)
(* C35: after an attempted POST the recorded status is the HTTP result     *)
(* code. A non-positive code is recorded with its reason: -1 connection    *)
(* failed, -2 send failed, -3 no stream, -4 no connection, -5 connection   *)
(* lost, -11 timeout, any other (0 included) the generic "Fehler <code>".  *)
(* For a positive code the recorded response is the body, cut to its first *)
(* 200 characters followed by "..." when it is longer than that.           *)
(***************************************************************************)
C35_RecordAfterPost ==
  [][ ev'.posts = 1 =>
        LET code == ev'.arg.code
            body == ev'.arg.body
        IN  /\ lastHaHttpCode' = code
            /\ code = 0 - 1  => lastHaResponse' = "Verbindung fehlgeschlagen"
            /\ code = 0 - 2  => lastHaResponse' = "Senden fehlgeschlagen"
            /\ code = 0 - 3  => lastHaResponse' = "Kein Stream"
            /\ code = 0 - 4  => lastHaResponse' = "Keine HTTP-Verbindung"
            /\ code = 0 - 5  => lastHaResponse' = "Verbindung verloren"
            /\ code = 0 - 11 => lastHaResponse' = "Timeout"
            /\ (code <= 0 /\ code \notin {0 - 1, 0 - 2, 0 - 3, 0 - 4, 0 - 5, 0 - 11})
                  => lastHaResponse' = "Fehler " \o IntToString(code)
            /\ (code > 0 /\ Len(body) <= 200) => lastHaResponse' = body
            /\ (code > 0 /\ Len(body) > 200)
                  => /\ Len(lastHaResponse') = 203
                     /\ SubSeq(lastHaResponse', 1, 200) = SubSeq(body, 1, 200)
                     /\ SubSeq(lastHaResponse', 201, 203) = "..." ]_vars

\* a scheduled delivery ran into the read timeout and recorded it
C35_Witness ==
  /\ ev.op = "haSend" /\ ev.posts = 1
  /\ lastHaHttpCode = 0 - 11 /\ lastHaResponse = "Timeout"

(***************************************************************************)
(* C36: a BMS settings request whose MAC does not have 17 characters is    *)
(* answered with success and does not restart the device; the MAC in RAM   *)
(* and the MAC a later setup() would load stay as they were, while the     *)
(* interval of the same request is clamped to [5, 300], applied and saved. *)
(***************************************************************************)
C36_MalformedMacRejectedLocally ==
  [][ (ev'.op = "apiBmsSettings" /\ Len(ev'.mac) # 17)
        => /\ ev'.reply = "success" /\ ~ev'.restart /\ pc' = "wifi"
           /\ bmsMac' = bmsMac
           /\ PrefGet(nvsSettings', "bmsMac", "") = PrefGet(nvsSettings, "bmsMac", "")
           /\ bmsInterval' = (IF ev'.arg < 5 THEN 5 ELSE IF ev'.arg > 300 THEN 300 ELSE ev'.arg)
           /\ nvsSettings'["bmsInterval"] = <<bmsInterval'>> ]_vars

\* a request with an 18-character MAC and an interval of 301 s, on a device
\* with a configured MAC: the MAC is kept and 300 s is stored
C36_Witness ==
  /\ ev.op = "apiBmsSettings" /\ ev.mac = "C8:47:80:3F:67:7C:" /\ ev.arg = 301
  /\ bmsMac = BmsMacA /\ nvsSettings["bmsMac"] = <<BmsMacA>>
  /\ bmsInterval = 300 /\ nvsSettings["bmsInterval"] = <<300>>

(***************************************************************************)
(* C37: between operations a connected peripheral implies that Bluetooth   *)
(* is enabled; so no poll happens, and neither the snapshot nor its flag   *)
(* is written, while Bluetooth is disabled.                                *)
(***************************************************************************)
C37_ConnectedImpliesEnabled ==
  [][ /\ bmsConnected => bluetoothEnabled
      /\ bmsConnected' => bluetoothEnabled'
      /\ ev'.polls = 1 => (bluetoothEnabled /\ bluetoothEnabled')
      /\ (~bluetoothEnabled /\ ~ev'.restart)
            => (ev'.polls = 0 /\ UNCHANGED <<ReadingSnapshot, ValidityFlag>>) ]_vars

\* disabled after a plausible reading: the poll section ran with the poll
\* interval elapsed and did not poll
C37_Witness ==
  /\ ~bluetoothEnabled /\ ~bmsConnected
  /\ ev.op = "bmsPoll" /\ ev.polls = 0
  /\ currentMillis - lastBmsUpdate >= bmsInterval * 1000
  /\ ReadingSnapshot = GoodReading

(***************************************************************************)
(* C38: inside a loop() iteration no stored timestamp is later than the    *)
(* iteration's currentMillis: lastWifiCheck, wifiReconnectStart,           *)
(* lastBmsUpdate, lastNtpSync and lastHaSend are all at most               *)
(* currentMillis, so no difference currentMillis - last is negative.       *)
(***************************************************************************)
C38_StampsNotAfterNow ==
  pc \notin {"boot", "idle"} =>
    /\ lastWifiCheck <= currentMillis
    /\ wifiReconnectStart <= currentMillis
    /\ lastBmsUpdate <= currentMillis
    /\ lastNtpSync <= currentMillis
    /\ lastHaSend <= currentMillis
    /\ currentMillis <= now

\* an iteration in which the hourly time sync has just been stamped, with
\* every other timestamp written earlier in the run
C38_Witness ==
  /\ pc = "ha" /\ ev.op = "ntp" /\ ev.reply = "synced"
  /\ lastNtpSync = currentMillis /\ now > currentMillis
  /\ lastBmsUpdate > 0 /\ lastBmsUpdate < currentMillis
  /\ lastWifiCheck > 0

(***************************************************************************)
(* C39 as stated: with currentMillis - last taken modulo 2^32, every due   *)
(* check of loop() fires exactly when the true elapsed time since `last`   *)
(* is at least the timer's interval, for any elapsed time below 2^32 ms    *)
(* and wherever the counter wraps.                                         *)
(***************************************************************************)
C39_DueIffElapsedAtLeastInterval ==
  ev.op = "dueCheck" =>
    (ev.arg.fired <=> Geq32(ev.arg.elapsed, U32(ev.arg.timer.interval)))

(***************************************************************************)
(* C39 (amended): as above for the WLAN check, the poll, the BMS backoff,  *)
(* the time sync and the delivery; the reconnect timeout fires exactly     *)
(* when more than 15 s have elapsed.                                       *)
(***************************************************************************)
C39_DueIffElapsedReachesInterval ==
  ev.op = "dueCheck" =>
    IF ev.arg.timer.name = "wifiReconnect"
    THEN ev.arg.fired <=> Gt32(ev.arg.elapsed, U32(WifiReconnectTimeout))
    ELSE ev.arg.fired <=> Geq32(ev.arg.elapsed, U32(ev.arg.timer.interval))

\* the hourly delivery timer, stamped 15 s before the wrap and found due
\* one hour and 1 ms later, when the counter reads 3585001
C39_Witness ==
  /\ ev.op = "dueCheck" /\ ev.arg.timer.name = "ha" /\ ev.arg.fired
  /\ ev.arg.last = [hi |-> Half - 1, lo |-> Half - 15000]
  /\ ev.arg.elapsed = U32(3600001)
  /\ ev.arg.currentMillis = U32(3585001)

====
